---- MODULE Spec2Model ----
(***************************************************************************)
(* Scheduled-tweet dispatch engine of xseyfabir/cursorapp.                 *)
(*                                                                         *)
(* Two implementations of the dispatch loop are modelled side by side:     *)
(*   "edge"  : supabase/functions/process-scheduled-tweets/index.ts        *)
(*   "route" : app/api/cron/scheduled-tweets/route.ts (token resolver in   *)
(*             lib/twitter/getValidTwitterToken.ts, src/unnamed/part_000)  *)
(* Every await of a handler is one atomic step, so that two runs (and the  *)
(* SQL reset script) interleave exactly where the code can be preempted.   *)
(* Time is counted in minutes.  Strings that are only compared and         *)
(* truncated are records [text, len]: text names the content, len is the   *)
(* number of characters.                                                   *)
(***************************************************************************)
EXTENDS Integers, Sequences, FiniteSets, TLC

\* ---------------------------------------------------------------- bounds
\* Number of scheduled_tweets rows and the last minute of the clock.
NumRows == 2
MaxClock == 1
\* BATCH_SIZE / MAX_BATCHES_PER_RUN (index.ts:7-8: 50 and 10) and
\* batchSize / maxBatches (route.ts:41-42: 100 and 50), scaled down.
EdgeBatchSize == 1
EdgeMaxBatches == 2
RouteBatchSize == 2
RouteMaxBatches == 2
\* Status writes of a run that may be lost: its first MaxLostWrites ones.
MaxLostWrites == 2
\* Requests of the owner (create, edit, delete) during a run.
MaxEdits == 1

\* ------------------------------------------------------ program constants
EXPIRY_SKEW_MIN == 5
ERROR_MAX_LEN == 500

Rows == 1..NumRows
\* The queue of the repeated-runs specification: one row more than the edge
\* function handles in a run.
NumQueued == 3
Runs == {1, 2}
Users == {"u1", "u2"}
Impls == {"edge", "route"}
Texts == {"v0", "v1"}

NullTime == -1
NullStr == "NULL"
\* A string value: text names the content, arg is an interpolated number
\* (0 when there is none), len is the length in characters.
Msg2(t, a, n) == [text |-> t, arg |-> a, len |-> n]
Msg(t, n) == Msg2(t, 0, n)
NullMsg == Msg("NULL", 0)
EmptyMsg == Msg("", 0)

\* msg.length > 500 ? msg.slice(0, 500) : msg
\* Variant: the message stored as it comes.
truncateErrorMessageNone(msg) == msg
truncateErrorMessage(msg) ==
  IF msg.len > ERROR_MAX_LEN THEN [msg EXCEPT !.len = ERROR_MAX_LEN] ELSE msg

\* JavaScript a || b on strings: the empty string is falsy.
OrElse(a, b) == IF a = NullMsg \/ a.len = 0 THEN b ELSE a

BATCH_SIZE(i) == IF i = "edge" THEN EdgeBatchSize ELSE RouteBatchSize
MAX_BATCHES_PER_RUN(i) == IF i = "edge" THEN EdgeMaxBatches ELSE RouteMaxBatches

\* ------------------------------------------------------------ the stores
VARIABLES
  clock,        \* Date.now(), in minutes
  tweets,       \* table scheduled_tweets: row id -> row
  accounts,     \* table twitter_accounts: user id -> row (present or not)
  env,          \* the process environment: the configured secrets
  edit          \* the request an owner's create/edit/delete endpoint is serving

\* ------------------------------------------- one dispatch run (handler call)
VARIABLES
  pc,           \* the await the run is suspended at ("idle": no request)
  request,      \* the HTTP request the handler was called with
  impl,         \* which handler serves the request: "edge" or "route"
  now,          \* const now = new Date().toISOString()
  batch,        \* loop variable of the batch loop
  dueTweets,    \* rows returned by the last due-rows query
  idx,          \* position of the for-of loop in dueTweets (1-based)
  force,        \* options.forceRefresh of the resolve in progress
  refreshToken, \* refresh_token read by the resolve in progress
  refreshed,    \* value returned by refreshAccessToken
  accessToken,  \* let accessToken
  postResult,   \* let postResult
  update,       \* the status update about to be sent for the current row
  results,      \* const results: Array<{id, status, error?}>
  response      \* what the handler returned: "none", "ok", "fetch_error",
                \* "unauthorized" (401), "method_not_allowed" (405), "alive"

\* ------------------------------------------------ observers (not program state)
VARIABLES
  queries,      \* due-rows queries issued by the run so far
  dueAtStart,   \* ids of the rows pending and due when the run captured now
  lastResp,     \* HTTP response of the latest publish call for the current row
  pubCalls,     \* publish calls made for the current row
  forceCalls,   \* force-refresh resolves started for the current row
  firstResp,    \* HTTP response of the first publish call for the current row
  resolveErr,   \* error thrown by the initial resolve of the current row
  resolveLog    \* the latest call of getValidTwitterToken: what it read,
                \* its calls to the token endpoint, what it returned or threw

storeVars == <<clock, tweets, accounts>>
runVars == <<pc, request, impl, now, batch, dueTweets, idx, force, refreshToken,
             refreshed, accessToken, postResult, update, results, response>>
obsVars == <<queries, dueAtStart, pubCalls, forceCalls, firstResp, lastResp,
             resolveErr, resolveLog>>
vars == <<storeVars, env, edit, runVars, obsVars>>

\* ------------------------------------------------- the publish endpoint
\* A response body: raw text, and the fields JSON.parse finds in it.
Body(j, d, e, m, r) ==
  [json |-> j, detail |-> d, error |-> e, errors0 |-> m, raw |-> r]
BodyNone == Body(FALSE, NullMsg, NullMsg, NullMsg, EmptyMsg)
BodyDetail == Body(TRUE, Msg("detail", 30), NullMsg, NullMsg, Msg("json", 60))
BodyHtml == Body(FALSE, NullMsg, NullMsg, NullMsg, Msg("html", 600))

\* status 0 stands for fetch() rejecting: no HTTP response at all.
Http(st, b) == [status |-> st, body |-> b]
NetworkFailure == Http(0, BodyNone)
PublishResponses ==
  { Http(201, BodyNone), Http(401, BodyDetail), Http(403, BodyDetail),
    Http(429, BodyNone), Http(500, BodyHtml), NetworkFailure }
HttpOk(resp) == resp.status >= 200 /\ resp.status <= 299

PostResult(o, st, e) == [ok |-> o, status |-> st, error |-> e]
NoResult == PostResult(FALSE, -1, NullMsg)
FetchFailedMsg == Msg("fetch failed", 12)

\* index.ts postTweet, for a response that arrived (fetch did not reject).
postTweetEdge(resp) ==
  IF ~HttpOk(resp)
  THEN LET msg == OrElse(resp.body.raw, Msg2("Twitter API error", resp.status, 21))
           b == resp.body
       IN PostResult(FALSE, resp.status,
            IF b.json
            THEN OrElse(b.detail, OrElse(b.error, OrElse(b.errors0, msg)))
            ELSE msg)
  ELSE PostResult(TRUE, resp.status, NullMsg)

\* route.ts postTweet: the catch turns a rejected fetch into status 0.
postTweetRoute(resp) ==
  IF resp = NetworkFailure
  THEN PostResult(FALSE, 0, OrElse(FetchFailedMsg, Msg("Network error", 13)))
  ELSE IF ~HttpOk(resp)
  THEN LET b == resp.body
       IN PostResult(FALSE, resp.status,
            IF b.json
            THEN OrElse(b.error, OrElse(b.detail,
                   Msg2("Twitter API error", resp.status, 21)))
            ELSE Msg2("Twitter API error", resp.status, 21))
  ELSE PostResult(TRUE, resp.status, NullMsg)

\* --------------------------------------------------- the token endpoint
AccessTokens == {"tB"}
ExpiresIn == {NullTime, 120}
\* A 2xx body: access_token ("" when the field is missing), refresh_token
\* (NullStr when omitted, "" when sent empty), expires_in in minutes
\* (NullTime when omitted).
Grant(a, r, e) == [access_token |-> a, refresh_token |-> r, expires_in |-> e]
TokenGrants ==
  { Grant(a, r, e) : a \in AccessTokens \cup {""}, r \in {NullStr, "", "rB"},
                     e \in ExpiresIn }
\* What refreshAccessToken throws.
NotConfiguredMsg ==
  Msg("Twitter OAuth is not configured. Missing TWITTER_CLIENT_ID.", 59)
RefreshRejectedMsg == Msg("invalid_grant", 40)
\* A non-2xx answer that is not JSON: the message is the raw body.
RefreshRawMsg == Msg("html", 600)
RefreshErrors == {RefreshRejectedMsg, RefreshRawMsg}
MalformedMsg == Msg("Twitter refresh response missing access_token", 45)

Refreshed(a, r, e) == [access_token |-> a, refresh_token |-> r, expires_at |-> e]
NoRefreshed == Refreshed("", NullStr, NullTime)
\* refreshAccessToken, from a 2xx body that carries an access_token.
refreshAccessToken(g, t) ==
  Refreshed(g.access_token, g.refresh_token,
            IF g.expires_in # NullTime THEN t + g.expires_in ELSE NullTime)

\* An expires_at that is not a date, and what Date.parse makes of it.
NotADate == -2
NaN == -3
DateParse(iso) == IF iso = NotADate THEN NaN ELSE iso
\* a >= b of two numbers: false when either is NaN.
Geq(a, b) == a # NaN /\ b # NaN /\ a >= b
\* ms - skew: NaN stays NaN.
Minus(ms, skew) == IF ms = NaN THEN NaN ELSE ms - skew

\* Variant: an absent expires_at read as "never expires".
isNearExpiryAbsentValid(expiresAt, t) ==
  IF expiresAt = NullTime THEN FALSE
  ELSE LET expiresAtMs == DateParse(expiresAt)
       IN IF expiresAtMs = NaN THEN TRUE
          ELSE Geq(t, Minus(expiresAtMs, EXPIRY_SKEW_MIN))
\* Variant: the window without its boundary.
isNearExpiryStrict(expiresAt, t) ==
  IF expiresAt = NullTime THEN TRUE
  ELSE LET expiresAtMs == DateParse(expiresAt)
       IN IF expiresAtMs = NaN THEN TRUE
          ELSE ~Geq(Minus(expiresAtMs, EXPIRY_SKEW_MIN), t)
\* Variant: no check of what Date.parse returned.
isNearExpiryNoNaNCheck(expiresAt, t) ==
  IF expiresAt = NullTime THEN TRUE
  ELSE Geq(t, Minus(DateParse(expiresAt), EXPIRY_SKEW_MIN))
isNearExpiry(expiresAt, t) ==
  IF expiresAt = NullTime THEN TRUE
  ELSE LET expiresAtMs == DateParse(expiresAt)
       IN IF expiresAtMs = NaN THEN TRUE
          ELSE Geq(t, Minus(expiresAtMs, EXPIRY_SKEW_MIN))

\* !s for a string or null: absent or empty.
IsMissing(s) == s = NullStr \/ s = ""

\* ------------------------------------------------------------- accounts
Account(p, a, r, e) ==
  [present |-> p, access_token |-> a, refresh_token |-> r, expires_at |-> e]
NoAccount == Account(FALSE, "", NullStr, NullTime)
\* Variant: refresh on every call.
shouldRefreshAlways(forceRefresh, a, t) == TRUE
\* const shouldRefresh = Boolean(options?.forceRefresh) || isNearExpiry(...)
shouldRefresh(forceRefresh, a, t) == forceRefresh \/ isNearExpiry(a.expires_at, t)
\* Variant: no check of the refresh token before the refresh.
HasRefreshTokenUnchecked(a) == TRUE
\* if (!refreshToken) throw ...
HasRefreshToken(a) == ~IsMissing(a.refresh_token)

\* One call of getValidTwitterToken as an observer sees it, until the
\* handler takes its next step: the expires_at it read, the requests it sent
\* to the token endpoint, and the token it returned (NullStr: none) or the
\* message it threw.
ResolveLog(e, c, tok, msg) ==
  [expires_at |-> e, calls |-> c, returned |-> tok, threw |-> msg]
NoResolve == ResolveLog(NullTime, 0, NullStr, NullMsg)
\* Messages thrown by getValidTwitterToken.
LoadFailedMsg == Msg("JSON object requested, multiple (or no) rows returned", 53)
NotConnectedMsg == Msg("Twitter account not connected for this user.", 44)
MissingRefreshMsg ==
  Msg("Twitter refresh_token missing. Please reconnect your Twitter account.", 69)
PersistFailedMsg == Msg("update failed", 13)
EmptyTokenMsg == Msg("Access token is empty or invalid", 32)

\* ---------------------------------------------------------------- tweets
\* text: "v0" as first written, "v1" once edited.  A row that does not
\* exist has status "absent" (never inserted) or "deleted".
Tweet(u, s, st, p, e) ==
  [user_id |-> u, scheduled_at |-> s, status |-> st, posted_at |-> p,
   error_message |-> e, text |-> "v0"]
Exists(row) == row.status \notin {"absent", "deleted"}
UserOf(id) == IF id % 2 = 1 THEN "u1" ELSE "u2"
\* Row 1 is due from the start, rows 2 and 3 a minute later, and so on.
InitScheduledAt(id) == id \div 2

\* Variant: a due-rows query without the status filter.
IsDueAnyStatus(row, t) == row.scheduled_at <= t
\* status = 'pending' AND scheduled_at <= now
IsDue(row, t) == row.status = "pending" /\ row.scheduled_at <= t
DueIds(t) == { id \in DOMAIN tweets : IsDue(tweets[id], t) }

Min(a, b) == IF a < b THEN a ELSE b
\* Sequences without repetition, of length n, over the set S.
Arrangements(S, n) ==
  { s \in [1..n -> S] : \A i, j \in 1..n : i # j => s[i] # s[j] }
\* Variant: a due-rows query without the ORDER BY.
DueQueryUnordered(t, n) ==
  Arrangements(DueIds(t), Min(n, Cardinality(DueIds(t))))
\* Variant: a cutoff taken anew at each query (scheduled_at <= now()).
DueQueryAtQueryTime(t, n) ==
  LET due == DueIds(clock)
      k == Min(n, Cardinality(due))
  IN { s \in Arrangements(due, k) :
         /\ \A i, j \in 1..k :
              i < j => tweets[s[i]].scheduled_at <= tweets[s[j]].scheduled_at
         /\ \A id \in due : \A i \in 1..k :
              (\A j \in 1..k : s[j] # id)
                => tweets[s[i]].scheduled_at <= tweets[id].scheduled_at }
\* ORDER BY scheduled_at ASC LIMIT n: any order the database may return
\* (rows with equal scheduled_at come in either order).
DueQuery(t, n) ==
  LET due == DueIds(t)
      k == Min(n, Cardinality(due))
  IN { s \in Arrangements(due, k) :
         /\ \A i, j \in 1..k :
              i < j => tweets[s[i]].scheduled_at <= tweets[s[j]].scheduled_at
         /\ \A id \in due : \A i \in 1..k :
              (\A j \in 1..k : s[j] # id)
                => tweets[s[i]].scheduled_at <= tweets[id].scheduled_at }
\* Variant: a query that claims the rows it returns (SELECT ... FOR UPDATE
\* with a status change), as a locking dispatcher would.
TweetsAfterFetchClaimed(s) ==
  [id \in DOMAIN tweets |->
     IF \E k \in 1..Len(s) : s[k] = id
     THEN [tweets[id] EXCEPT !.status = "processing"]
     ELSE tweets[id]]
\* The table after the due-rows query returned the rows s: a plain SELECT,
\* nothing marks the returned rows as taken.
TweetsAfterFetch(s) == tweets
\* A returned row as the handler holds it (select * / select id,user_id,...).
Snapshot(id) ==
  [id |-> id, user_id |-> tweets[id].user_id,
   scheduled_at |-> tweets[id].scheduled_at, status |-> tweets[id].status]

\* ------------------------------------------------------------- requests
\* An HTTP request to a trigger: its method, the secret query parameter, the
\* secret of the Authorization header ("Bearer " + secret), and whether the
\* header x-vercel-cron is "1".  NullStr: parameter or header not sent.
Request(m, q, b, c) == [method |-> m, secret |-> q, authorization |-> b, cron |-> c]
NoRequest == Request("NONE", NullStr, NullStr, FALSE)
Requests ==
  { Request(m, q, b, c) : m \in {"GET", "POST", "DELETE"},
                          q \in {NullStr, "", "s1", "s2"},
                          b \in {NullStr, "s1"}, c \in BOOLEAN }
\* The environment variables the handlers read: the two secrets (NullStr:
\* unset) and whether TWITTER_CLIENT_ID is set.
Environment(s, p, id) ==
  [CRON_SECRET |-> s, NEXT_PUBLIC_CRON_SECRET |-> p, TWITTER_CLIENT_ID |-> id]
Configured == Environment("s1", NullStr, TRUE)
\* The request the scheduler sends: ?secret=<CRON_SECRET> to the edge
\* function, the x-vercel-cron header to the route.
CronRequest(i) ==
  IF i = "edge" THEN Request("POST", env.CRON_SECRET, NullStr, FALSE)
  ELSE Request("GET", NullStr, NullStr, TRUE)
\* The triggers shipped with the application and the request each of them
\* sends to the edge function: /api/cron/tick and
\* /api/trigger-scheduled-tweets POST to ...?secret=<CRON_SECRET> with no
\* Authorization header; the pg_cron job POSTs to the bare URL with
\* Authorization: Bearer <service role key>.
TriggerPaths == {"tick", "trigger", "pg_cron"}
ShippedRequest(path, e) ==
  IF path = "pg_cron" THEN Request("POST", NullStr, "service_role_key", FALSE)
  ELSE Request("POST", e.CRON_SECRET, NullStr, FALSE)

\* Variant: an edge function that is open while no secret is configured.
EdgeVerdictOpenWhenUnset(req, e) ==
  IF req.method = "GET" THEN "alive"
  ELSE IF req.method # "POST" THEN "method_not_allowed"
  ELSE IF ~IsMissing(e.CRON_SECRET) /\ req.secret # e.CRON_SECRET
    THEN "unauthorized"
  ELSE "run"
\* index.ts 228-245: what the edge function does with a request.
EdgeVerdict(req, e) ==
  IF req.method = "GET" THEN "alive"
  ELSE IF req.method # "POST" THEN "method_not_allowed"
  ELSE IF IsMissing(req.secret) \/ IsMissing(e.CRON_SECRET)
          \/ req.secret # e.CRON_SECRET
    THEN "unauthorized"
  ELSE "run"
\* route.ts 10-33: the route exports GET only.
RouteVerdict(req, e) ==
  LET allowedSecrets ==
        { x \in {e.CRON_SECRET, e.NEXT_PUBLIC_CRON_SECRET} : ~IsMissing(x) }
  IN IF req.method # "GET" THEN "method_not_allowed"
     ELSE IF allowedSecrets # {} /\ ~req.cron
            /\ req.authorization \notin allowedSecrets
            /\ req.secret \notin allowedSecrets
       THEN "unauthorized"
     ELSE "run"
Verdict(i, req, e) == IF i = "edge" THEN EdgeVerdict(req, e) ELSE RouteVerdict(req, e)

\* -------------------------------------------------- the owner's endpoints
\* A call of PATCH or DELETE /api/scheduled-tweets/[id] between its select
\* and its write: the row, and the body of a PATCH.  n counts the calls made.
Edit(o, id, tx, at, n) == [op |-> o, id |-> id, text |-> tx, scheduled_at |-> at, n |-> n]
NoEdit == Edit("none", 0, "", NullTime, 0)

\* ------------------------------------------------------------------ Init
InitAccountsU1 ==
  { Account(TRUE, "tA", "rA", 200), Account(TRUE, "tA", "rA", NullTime) }
InitAccountsU2 ==
  { NoAccount, Account(TRUE, "", NullStr, NullTime),
    Account(TRUE, "tA", NullStr, 200), Account(TRUE, "tA", NullStr, NullTime),
    Account(TRUE, " ", NullStr, 200) }

NoUpdate ==
  [status |-> "none", posted_at |-> "keep", error_message |-> NullMsg,
   result |-> "none", result_error |-> NullMsg]

InitRuns ==
  /\ pc = [r \in Runs |-> "idle"]
  /\ impl = [r \in Runs |-> "edge"]
  /\ now = [r \in Runs |-> 0]
  /\ batch = [r \in Runs |-> 0]
  /\ dueTweets = [r \in Runs |-> <<>>]
  /\ idx = [r \in Runs |-> 0]
  /\ force = [r \in Runs |-> FALSE]
  /\ refreshToken = [r \in Runs |-> NullStr]
  /\ refreshed = [r \in Runs |-> NoRefreshed]
  /\ accessToken = [r \in Runs |-> ""]
  /\ postResult = [r \in Runs |-> NoResult]
  /\ update = [r \in Runs |-> NoUpdate]
  /\ results = [r \in Runs |-> <<>>]
  /\ response = [r \in Runs |-> "none"]
  /\ queries = [r \in Runs |-> 0]
  /\ dueAtStart = [r \in Runs |-> {}]
  /\ lastResp = [r \in Runs |-> NetworkFailure]
  /\ pubCalls = [r \in Runs |-> 0]
  /\ forceCalls = [r \in Runs |-> 0]
  /\ firstResp = [r \in Runs |-> NetworkFailure]
  /\ resolveErr = [r \in Runs |-> NullMsg]
  /\ resolveLog = [r \in Runs |-> NoResolve]
  /\ request = [r \in Runs |-> NoRequest]
  /\ edit = NoEdit

\* A queue of pending rows, none attempted yet, and the accounts of their
\* owners in any of the shapes the resolver distinguishes.
Init ==
  /\ clock = 0
  /\ tweets = [id \in Rows |->
                 Tweet(UserOf(id), InitScheduledAt(id), "pending", NullTime, NullMsg)]
  /\ \E a1 \in InitAccountsU1, a2 \in InitAccountsU2 :
       accounts = [u \in Users |-> IF u = "u1" THEN a1 ELSE a2]
  /\ env = Configured
  /\ InitRuns

\* The same, with one pending row: the others were posted earlier.
InitOverlap ==
  /\ clock = 0
  /\ tweets = [id \in Rows |->
                 IF id = 1
                 THEN Tweet(UserOf(id), 0, "pending", NullTime, NullMsg)
                 ELSE Tweet(UserOf(id), 0, "posted", 0, NullMsg)]
  /\ \E a1 \in InitAccountsU1 :
       accounts = [u \in Users |-> IF u = "u1" THEN a1 ELSE NoAccount]
  /\ env = Configured
  /\ InitRuns

\* ------------------------------------------------------- control helpers
Active(r) == pc[r] \notin {"idle", "done"}
CurrentTweet(r) == dueTweets[r][idx[r]]

\* error.slice(0, 500) of markFailed
Slice500(msg) == IF msg.len > 500 THEN [msg EXCEPT !.len = 500] ELSE msg

\* Variant: a failure that leaves the row pending, to be tried again.
FailedUpdateStaysPending(i, msg, res, resErr) ==
  [status |-> "pending", posted_at |-> "keep",
   error_message |-> Slice500(msg),
   result |-> res, result_error |-> resErr]
\* index.ts 373-386 and 400-412: failed, posted_at: null, truncated message.
\* route.ts markFailed: failed, error.slice(0, 500); posted_at is not in the
\* update.  res / resErr are the entry pushed on results.
FailedUpdate(i, msg, res, resErr) ==
  IF i = "edge"
  THEN [status |-> "failed", posted_at |-> "null",
        error_message |-> truncateErrorMessage(msg),
        result |-> "failed", result_error |-> truncateErrorMessage(msg)]
  ELSE [status |-> "failed", posted_at |-> "keep",
        error_message |-> Slice500(msg),
        result |-> res, result_error |-> resErr]
\* Variant: a posted write that leaves posted_at alone.
PostedUpdateNoTimestamp ==
  [status |-> "posted", posted_at |-> "keep", error_message |-> NullMsg,
   result |-> "posted", result_error |-> NullMsg]
\* index.ts 390-399, route.ts 101-110
PostedUpdate ==
  [status |-> "posted", posted_at |-> "now", error_message |-> NullMsg,
   result |-> "posted", result_error |-> NullMsg]

\* The update the handler sends once the publish attempts of a row are over
\* (index.ts 373-399, route.ts 91-110).
AfterPublish(i, pr) ==
  IF ~pr.ok
  THEN FailedUpdate(i, OrElse(pr.error, Msg("Failed to post tweet", 20)),
                    "failed_post", pr.error)
  ELSE PostedUpdate

\* Variant: a catch that records a fixed text instead of the error caught.
AfterThrowGeneric(i, msg) ==
  FailedUpdate(i, Msg("Unexpected error posting tweet", 30), "failed", NullMsg)
\* The update sent when the body of the per-row try throws before any
\* publish result exists: index.ts 400-412 (outer catch), route.ts 69-77.
AfterThrow(i, msg) ==
  IF i = "edge"
  THEN FailedUpdate(i, OrElse(msg, Msg("Unexpected error posting tweet", 30)),
                    "failed", msg)
  ELSE FailedUpdate(i, OrElse(msg,
                      Msg("No Twitter account connected for this user.", 43)),
                    "failed_no_account", NullMsg)

\* accessToken.trim().length === 0 (index.ts 338, 357); route.ts has no check.
IsBlank(tok) == tok = "" \/ tok = " "

\* --------------------------------------------------------------- actions
\* Values of the per-row locals at the top of a for-of iteration.
RowLocalsReset(r) ==
  /\ force' = [force EXCEPT ![r] = FALSE]
  /\ refreshToken' = [refreshToken EXCEPT ![r] = NullStr]
  /\ refreshed' = [refreshed EXCEPT ![r] = NoRefreshed]
  /\ accessToken' = [accessToken EXCEPT ![r] = ""]
  /\ postResult' = [postResult EXCEPT ![r] = NoResult]
  /\ update' = [update EXCEPT ![r] = NoUpdate]

\* The per-row observers start afresh with the first step taken for a row
\* and when the run returns (they keep the story of a row until then).
RowObserversReset(r) ==
  /\ pubCalls' = [pubCalls EXCEPT ![r] = 0]
  /\ forceCalls' = [forceCalls EXCEPT ![r] = 0]
  /\ firstResp' = [firstResp EXCEPT ![r] = NetworkFailure]
  /\ lastResp' = [lastResp EXCEPT ![r] = NetworkFailure]

\* A request reaches handler i: now is captured, results is empty.
StartRun(r, i) ==
  /\ pc[r] = "idle"
  /\ pc' = [pc EXCEPT ![r] = "fetch"]
  /\ impl' = [impl EXCEPT ![r] = i]
  /\ now' = [now EXCEPT ![r] = clock]
  /\ batch' = [batch EXCEPT ![r] = 0]
  /\ dueTweets' = [dueTweets EXCEPT ![r] = <<>>]
  /\ idx' = [idx EXCEPT ![r] = 0]
  /\ results' = [results EXCEPT ![r] = <<>>]
  /\ response' = [response EXCEPT ![r] = "none"]
  /\ queries' = [queries EXCEPT ![r] = 0]
  /\ dueAtStart' = [dueAtStart EXCEPT ![r] =
       { id \in DOMAIN tweets : /\ tweets[id].status = "pending"
                        /\ tweets[id].scheduled_at <= clock }]
  /\ RowLocalsReset(r)
  /\ RowObserversReset(r)
  /\ resolveErr' = [resolveErr EXCEPT ![r] = NullMsg]
  /\ resolveLog' = [resolveLog EXCEPT ![r] = NoResolve]
  /\ UNCHANGED <<storeVars, env, edit>>

\* The handler answers without starting a run.
Reject(r, i, v) ==
  /\ pc' = [pc EXCEPT ![r] = "done"]
  /\ impl' = [impl EXCEPT ![r] = i]
  /\ response' = [response EXCEPT ![r] = v]
  /\ UNCHANGED <<storeVars, env, edit, now, batch, dueTweets, idx, force, refreshToken,
                 refreshed, accessToken, postResult, update, results, obsVars>>

\* Handler i is called with the request req: index.ts 225-282, route.ts 10-37.
Trigger(r, i, req) ==
  /\ pc[r] = "idle"
  /\ request' = [request EXCEPT ![r] = req]
  /\ IF Verdict(i, req, env) = "run" THEN StartRun(r, i)
     ELSE Reject(r, i, Verdict(i, req, env))

\* The due-rows query returns: index.ts 289-321, route.ts 45-62.
FetchBatch(r) ==
  /\ pc[r] = "fetch"
  /\ \E s \in DueQuery(now[r], BATCH_SIZE(impl[r])) :
       /\ dueTweets' = [dueTweets EXCEPT ![r] = [k \in 1..Len(s) |-> Snapshot(s[k])]]
       /\ tweets' = TweetsAfterFetch(s)
       /\ IF Len(s) = 0
          THEN /\ pc' = [pc EXCEPT ![r] = "done"]
               /\ response' = [response EXCEPT ![r] = "ok"]
               /\ idx' = [idx EXCEPT ![r] = 0]
          ELSE /\ pc' = [pc EXCEPT ![r] = "load"]
               /\ response' = response
               /\ idx' = [idx EXCEPT ![r] = 1]
  /\ queries' = [queries EXCEPT ![r] = @ + 1]
  /\ RowObserversReset(r)
  /\ resolveErr' = [resolveErr EXCEPT ![r] = NullMsg]
  /\ resolveLog' = [resolveLog EXCEPT ![r] = NoResolve]
  /\ UNCHANGED <<clock, accounts, request, env, edit, impl, now, batch, force, refreshToken,
                 refreshed, accessToken, postResult, update, results,
                 dueAtStart>>

\* Variant: a failed query that is reported but does not end the run.
FetchFailContinues(r) ==
  /\ pc[r] = "fetch"
  /\ response' = [response EXCEPT ![r] = "fetch_error"]
  /\ IF batch[r] + 1 < MAX_BATCHES_PER_RUN(impl[r])
     THEN pc' = pc
     ELSE pc' = [pc EXCEPT ![r] = "done"]
  /\ batch' = [batch EXCEPT ![r] = @ + 1]
  /\ dueTweets' = [dueTweets EXCEPT ![r] = <<>>]
  /\ idx' = [idx EXCEPT ![r] = 0]
  /\ queries' = [queries EXCEPT ![r] = @ + 1]
  /\ RowObserversReset(r)
  /\ resolveErr' = [resolveErr EXCEPT ![r] = NullMsg]
  /\ resolveLog' = [resolveLog EXCEPT ![r] = NoResolve]
  /\ UNCHANGED <<storeVars, request, env, edit, impl, now, force, refreshToken, refreshed,
                 accessToken, postResult, update, results, dueAtStart>>
\* The due-rows query fails: index.ts 297-303, route.ts 53-58.
FetchFail(r) ==
  /\ pc[r] = "fetch"
  /\ pc' = [pc EXCEPT ![r] = "done"]
  /\ response' = [response EXCEPT ![r] = "fetch_error"]
  /\ dueTweets' = [dueTweets EXCEPT ![r] = <<>>]
  /\ idx' = [idx EXCEPT ![r] = 0]
  /\ queries' = [queries EXCEPT ![r] = @ + 1]
  /\ RowObserversReset(r)
  /\ resolveErr' = [resolveErr EXCEPT ![r] = NullMsg]
  /\ resolveLog' = [resolveLog EXCEPT ![r] = NoResolve]
  /\ UNCHANGED <<storeVars, request, env, edit, impl, now, batch, force, refreshToken, refreshed,
                 accessToken, postResult, update, results, dueAtStart>>

\* Variant: no inner catch, the failure of the resolve after a 401 reaches
\* the catch of the row like any other.
ResolveThrowsUncaught(r, msg) ==
  /\ pc' = [pc EXCEPT ![r] = "write"]
  /\ update' = [update EXCEPT ![r] = AfterThrow(impl[r], msg)]
  /\ resolveErr' = [resolveErr EXCEPT ![r] = msg]
  /\ refreshToken' = [refreshToken EXCEPT ![r] = NullStr]
  /\ refreshed' = [refreshed EXCEPT ![r] = NoRefreshed]
  /\ UNCHANGED accessToken
\* getValidTwitterToken throws msg, or the handler rejects the token it got.
\* Inside the 401 branch the inner catch swallows it and the handler goes on
\* with the postResult of the first attempt; otherwise the row fails with msg.
ResolveThrows(r, msg) ==
  /\ pc' = [pc EXCEPT ![r] = "write"]
  /\ IF force[r]
     THEN /\ update' = [update EXCEPT ![r] = AfterPublish(impl[r], postResult[r])]
          /\ resolveErr' = [resolveErr EXCEPT ![r] = NullMsg]
     ELSE /\ update' = [update EXCEPT ![r] = AfterThrow(impl[r], msg)]
          /\ resolveErr' = [resolveErr EXCEPT ![r] = msg]
  /\ refreshToken' = [refreshToken EXCEPT ![r] = NullStr]
  /\ refreshed' = [refreshed EXCEPT ![r] = NoRefreshed]
  /\ UNCHANGED accessToken

\* Variant: the token the force-refresh returns is dropped, the retry goes
\* out with the token of the first attempt.
ResolveReturnsKeepsFirst(r, tok) ==
  IF impl[r] = "edge" /\ IsBlank(tok)
  THEN ResolveThrows(r, EmptyTokenMsg)
  ELSE /\ pc' = [pc EXCEPT ![r] = "publish"]
       /\ accessToken' = [accessToken EXCEPT ![r] = IF force[r] THEN @ ELSE tok]
       /\ refreshToken' = [refreshToken EXCEPT ![r] = NullStr]
       /\ refreshed' = [refreshed EXCEPT ![r] = NoRefreshed]
       /\ resolveErr' = [resolveErr EXCEPT ![r] = NullMsg]
       /\ update' = update
\* getValidTwitterToken returns tok: index.ts 336-340 and 355-359.
ResolveReturns(r, tok) ==
  IF impl[r] = "edge" /\ IsBlank(tok)
  THEN ResolveThrows(r, EmptyTokenMsg)
  ELSE /\ pc' = [pc EXCEPT ![r] = "publish"]
       /\ accessToken' = [accessToken EXCEPT ![r] = tok]
       /\ refreshToken' = [refreshToken EXCEPT ![r] = NullStr]
       /\ refreshed' = [refreshed EXCEPT ![r] = NoRefreshed]
       /\ resolveErr' = [resolveErr EXCEPT ![r] = NullMsg]
       /\ update' = update

\* getValidTwitterToken up to its first decision: index.ts 100-132,
\* part_000 94-121.
LoadAccount(r) ==
  /\ pc[r] = "load"
  /\ LET a == accounts[CurrentTweet(r).user_id]
         Threw(msg) == ResolveLog(a.expires_at, 0, NullStr, msg)
     IN IF ~a.present
          THEN /\ ResolveThrows(r, LoadFailedMsg)
               /\ resolveLog' = [resolveLog EXCEPT ![r] = Threw(LoadFailedMsg)]
        ELSE IF a.access_token = ""
          THEN /\ ResolveThrows(r, NotConnectedMsg)
               /\ resolveLog' = [resolveLog EXCEPT ![r] = Threw(NotConnectedMsg)]
        ELSE IF ~shouldRefresh(force[r], a, clock)
          THEN /\ ResolveReturns(r, a.access_token)
               /\ resolveLog' = [resolveLog EXCEPT ![r] =
                     ResolveLog(a.expires_at, 0, a.access_token, NullMsg)]
        ELSE IF ~HasRefreshToken(a)
          THEN /\ ResolveThrows(r, MissingRefreshMsg)
               /\ resolveLog' = [resolveLog EXCEPT ![r] = Threw(MissingRefreshMsg)]
        ELSE /\ pc' = [pc EXCEPT ![r] = "refresh"]
             /\ refreshToken' = [refreshToken EXCEPT ![r] = a.refresh_token]
             /\ resolveErr' = [resolveErr EXCEPT ![r] = NullMsg]
             /\ resolveLog' = [resolveLog EXCEPT ![r] = Threw(NullMsg)]
             /\ UNCHANGED <<update, accessToken, refreshed>>
  /\ IF force[r]
     THEN UNCHANGED <<pubCalls, forceCalls, firstResp, lastResp>>
     ELSE RowObserversReset(r)
  /\ UNCHANGED <<storeVars, request, env, edit, impl, now, batch, dueTweets, idx, force, postResult,
                 results, response, queries, dueAtStart>>

\* refreshAccessToken: the POST to the token endpoint and what it yields.
RefreshCall(r) ==
  /\ pc[r] = "refresh"
  /\ LET Called(msg) ==
           [resolveLog EXCEPT ![r].calls = @ + 1, ![r].threw = msg]
     IN IF ~env.TWITTER_CLIENT_ID
        THEN /\ ResolveThrows(r, NotConfiguredMsg)
             /\ resolveLog' = [resolveLog EXCEPT ![r].threw = NotConfiguredMsg]
        ELSE \/ /\ ResolveThrows(r, FetchFailedMsg)
                /\ resolveLog' = Called(FetchFailedMsg)
             \/ \E msg \in RefreshErrors :
                  /\ ResolveThrows(r, msg)
                  /\ resolveLog' = Called(msg)
             \/ \E g \in TokenGrants :
                  IF g.access_token = ""
                  THEN /\ ResolveThrows(r, MalformedMsg)
                       /\ resolveLog' = Called(MalformedMsg)
                  ELSE /\ refreshed' = [refreshed EXCEPT ![r] =
                                          refreshAccessToken(g, clock)]
                       /\ pc' = [pc EXCEPT ![r] = "persist"]
                       /\ resolveLog' = Called(NullMsg)
                       /\ UNCHANGED <<update, resolveErr, accessToken, refreshToken>>
  /\ UNCHANGED <<storeVars, request, env, edit, impl, now, batch, dueTweets, idx, force, postResult,
                 results, response, queries, dueAtStart, pubCalls,
                 forceCalls, firstResp, lastResp>>

\* Variant: the stored refresh token is whatever the response carried.
NextRefreshTokenFromResponse(new, old) == new
\* refreshed.refresh_token || refreshToken
NextRefreshToken(new, old) == IF new = NullStr \/ new = "" THEN old ELSE new

\* Variant: an update that leaves expires_at to a later statement.
PersistOkKeepsExpiry(r) ==
  /\ pc[r] = "persist"
  /\ LET u == CurrentTweet(r).user_id
     IN accounts' =
          [accounts EXCEPT ![u] =
             IF accounts[u].present
             THEN Account(TRUE, refreshed[r].access_token,
                          NextRefreshToken(refreshed[r].refresh_token, refreshToken[r]),
                          accounts[u].expires_at)
             ELSE accounts[u]]
  /\ ResolveReturns(r, refreshed[r].access_token)
  /\ resolveLog' = [resolveLog EXCEPT ![r].returned = refreshed[r].access_token]
  /\ UNCHANGED <<clock, tweets, request, env, edit, impl, now, batch, dueTweets, idx, force,
                 postResult, results, response, queries, dueAtStart,
                 pubCalls, forceCalls, firstResp, lastResp>>
\* The update of twitter_accounts takes effect: index.ts 138-155.
PersistOk(r) ==
  /\ pc[r] = "persist"
  /\ LET u == CurrentTweet(r).user_id
     IN accounts' =
          [accounts EXCEPT ![u] =
             IF accounts[u].present
             THEN Account(TRUE, refreshed[r].access_token,
                          NextRefreshToken(refreshed[r].refresh_token, refreshToken[r]),
                          refreshed[r].expires_at)
             ELSE accounts[u]]
  /\ ResolveReturns(r, refreshed[r].access_token)
  /\ resolveLog' = [resolveLog EXCEPT ![r].returned = refreshed[r].access_token]
  /\ UNCHANGED <<clock, tweets, request, env, edit, impl, now, batch, dueTweets, idx, force,
                 postResult, results, response, queries, dueAtStart,
                 pubCalls, forceCalls, firstResp, lastResp>>

\* Variant: a failed write that is logged and passed over, the new token
\* being returned all the same.
PersistFailIgnored(r) ==
  /\ pc[r] = "persist"
  /\ ResolveReturns(r, refreshed[r].access_token)
  /\ resolveLog' = [resolveLog EXCEPT ![r].returned = refreshed[r].access_token]
  /\ UNCHANGED <<storeVars, request, env, edit, impl, now, batch, dueTweets, idx, force,
                 postResult, results, response, queries, dueAtStart, pubCalls,
                 forceCalls, firstResp, lastResp>>
\* The update of twitter_accounts returns an error: index.ts 149-152.
PersistFail(r) ==
  /\ pc[r] = "persist"
  /\ ResolveThrows(r, PersistFailedMsg)
  /\ resolveLog' = [resolveLog EXCEPT ![r].threw = PersistFailedMsg]
  /\ UNCHANGED <<storeVars, request, env, edit, impl, now, batch, dueTweets, idx, force, postResult,
                 results, response, queries, dueAtStart, pubCalls,
                 forceCalls, firstResp, lastResp>>

\* Variant: a publisher that takes only 200 for success (the endpoint
\* answers 201 Created).
postTweetOnly200(i, resp) ==
  IF resp.status = 200 THEN PostResult(TRUE, 200, NullMsg)
  ELSE PostResult(FALSE, resp.status, Msg2("Twitter API error", resp.status, 21))
postTweet(i, resp) == IF i = "edge" THEN postTweetEdge(resp) ELSE postTweetRoute(resp)

\* Variant: retry after any failed publish.
ShouldRetryAnyError(pr) == ~pr.ok
\* Step 3 of the handler: retry only after a 401 (index.ts 351, route.ts 82).
ShouldRetry(pr) == ~pr.ok /\ pr.status = 401
\* Variant: a retry for as long as the endpoint answers 401.
RetryWhile401(retried, pr) == ShouldRetry(pr)
\* The retry is an if inside the row's try, not a loop: the publish call
\* made in its body is not tested again (index.ts 351-371, route.ts 82-89).
RetryOnce(retried, pr) == ~retried /\ ShouldRetry(pr)

\* One call of postTweet and the branch taken on its result:
\* index.ts 348-371, route.ts 79-89.
Publish(r) ==
  /\ pc[r] = "publish"
  /\ \E resp \in PublishResponses :
       /\ firstResp' = [firstResp EXCEPT ![r] = IF pubCalls[r] = 0 THEN resp ELSE @]
       /\ lastResp' = [lastResp EXCEPT ![r] = resp]
       /\ IF impl[r] = "edge" /\ resp = NetworkFailure
          THEN \* fetch rejects inside postTweet: the call throws
               /\ pc' = [pc EXCEPT ![r] = "write"]
               /\ update' = [update EXCEPT ![r] =
                     IF force[r] THEN AfterPublish(impl[r], postResult[r])
                     ELSE AfterThrow(impl[r], FetchFailedMsg)]
               /\ UNCHANGED <<postResult, force, forceCalls>>
          ELSE LET pr == postTweet(impl[r], resp)
               IN /\ postResult' = [postResult EXCEPT ![r] = pr]
                  /\ IF RetryOnce(force[r], pr)
                     THEN /\ pc' = [pc EXCEPT ![r] = "load"]
                          /\ force' = [force EXCEPT ![r] = TRUE]
                          /\ forceCalls' = [forceCalls EXCEPT ![r] = @ + 1]
                          /\ update' = update
                     ELSE /\ pc' = [pc EXCEPT ![r] = "write"]
                          /\ update' = [update EXCEPT ![r] = AfterPublish(impl[r], pr)]
                          /\ UNCHANGED <<force, forceCalls>>
  /\ pubCalls' = [pubCalls EXCEPT ![r] = @ + 1]
  /\ resolveLog' = [resolveLog EXCEPT ![r] = NoResolve]
  /\ UNCHANGED <<storeVars, request, env, edit, impl, now, batch, dueTweets, idx, refreshToken,
                 refreshed, accessToken, results, response, queries, dueAtStart,
                 resolveErr>>

\* Variant: a status write that is an upsert.
ApplyUpsert(row, u, t) ==
  [row EXCEPT !.status = u.status,
              !.posted_at = IF u.posted_at = "now" THEN t
                            ELSE IF u.posted_at = "null" THEN NullTime ELSE @,
              !.error_message = u.error_message]
\* UPDATE scheduled_tweets SET ... WHERE id = ? (no row: nothing happens)
ApplyUpdate(row, u, t) ==
  IF ~Exists(row) THEN row
  ELSE [row EXCEPT !.status = u.status,
                   !.posted_at = IF u.posted_at = "now" THEN t
                                 ELSE IF u.posted_at = "null" THEN NullTime ELSE @,
                   !.error_message = u.error_message]

\* Variant: a batch loop without the break on a short batch.
LoopAdvanceNoBreak(r) ==
  IF idx[r] < Len(dueTweets[r])
  THEN /\ idx' = [idx EXCEPT ![r] = @ + 1]
       /\ pc' = [pc EXCEPT ![r] = "load"]
       /\ UNCHANGED <<batch, response>>
  ELSE IF batch[r] + 1 < MAX_BATCHES_PER_RUN(impl[r])
  THEN /\ batch' = [batch EXCEPT ![r] = @ + 1]
       /\ pc' = [pc EXCEPT ![r] = "fetch"]
       /\ UNCHANGED <<idx, response>>
  ELSE /\ pc' = [pc EXCEPT ![r] = "done"]
       /\ response' = [response EXCEPT ![r] = "ok"]
       /\ batch' = [batch EXCEPT ![r] = @ + 1]
       /\ idx' = idx
\* Variant: a batch loop that a failed row ends (break for continue).
LoopAdvanceStopsOnFailure(r) ==
  IF idx[r] < Len(dueTweets[r]) /\ update[r].status # "failed"
  THEN /\ idx' = [idx EXCEPT ![r] = @ + 1]
       /\ pc' = [pc EXCEPT ![r] = "load"]
       /\ UNCHANGED <<batch, response>>
  ELSE IF Len(dueTweets[r]) < BATCH_SIZE(impl[r]) \/ update[r].status = "failed"
  THEN /\ pc' = [pc EXCEPT ![r] = "done"]
       /\ response' = [response EXCEPT ![r] = "ok"]
       /\ UNCHANGED <<batch, idx>>
  ELSE IF batch[r] + 1 < MAX_BATCHES_PER_RUN(impl[r])
  THEN /\ batch' = [batch EXCEPT ![r] = @ + 1]
       /\ pc' = [pc EXCEPT ![r] = "fetch"]
       /\ UNCHANGED <<idx, response>>
  ELSE /\ pc' = [pc EXCEPT ![r] = "done"]
       /\ response' = [response EXCEPT ![r] = "ok"]
       /\ batch' = [batch EXCEPT ![r] = @ + 1]
       /\ idx' = idx
\* Variant: a batch loop without the cap on the number of batches.
LoopAdvanceNoCap(r) ==
  IF idx[r] < Len(dueTweets[r])
  THEN /\ idx' = [idx EXCEPT ![r] = @ + 1]
       /\ pc' = [pc EXCEPT ![r] = "load"]
       /\ UNCHANGED <<batch, response>>
  ELSE IF Len(dueTweets[r]) < BATCH_SIZE(impl[r])
  THEN /\ pc' = [pc EXCEPT ![r] = "done"]
       /\ response' = [response EXCEPT ![r] = "ok"]
       /\ UNCHANGED <<batch, idx>>
  ELSE /\ batch' = [batch EXCEPT ![r] = @ + 1]
       /\ pc' = [pc EXCEPT ![r] = "fetch"]
       /\ UNCHANGED <<idx, response>>
\* Variant: a batch loop whose cap is one batch short.
LoopAdvanceCapOffByOne(r) ==
  IF idx[r] < Len(dueTweets[r])
  THEN /\ idx' = [idx EXCEPT ![r] = @ + 1]
       /\ pc' = [pc EXCEPT ![r] = "load"]
       /\ UNCHANGED <<batch, response>>
  ELSE IF Len(dueTweets[r]) < BATCH_SIZE(impl[r])
  THEN /\ pc' = [pc EXCEPT ![r] = "done"]
       /\ response' = [response EXCEPT ![r] = "ok"]
       /\ UNCHANGED <<batch, idx>>
  ELSE IF batch[r] + 2 < MAX_BATCHES_PER_RUN(impl[r])
  THEN /\ batch' = [batch EXCEPT ![r] = @ + 1]
       /\ pc' = [pc EXCEPT ![r] = "fetch"]
       /\ UNCHANGED <<idx, response>>
  ELSE /\ pc' = [pc EXCEPT ![r] = "done"]
       /\ response' = [response EXCEPT ![r] = "ok"]
       /\ batch' = [batch EXCEPT ![r] = @ + 1]
       /\ idx' = idx
\* End of a for-of iteration: next row, next batch, or the response
\* (index.ts 285, 325, 416; route.ts 44, 64, 122).
LoopAdvance(r) ==
  IF idx[r] < Len(dueTweets[r])
  THEN /\ idx' = [idx EXCEPT ![r] = @ + 1]
       /\ pc' = [pc EXCEPT ![r] = "load"]
       /\ UNCHANGED <<batch, response>>
  ELSE IF Len(dueTweets[r]) < BATCH_SIZE(impl[r])
  THEN /\ pc' = [pc EXCEPT ![r] = "done"]
       /\ response' = [response EXCEPT ![r] = "ok"]
       /\ UNCHANGED <<batch, idx>>
  ELSE IF batch[r] + 1 < MAX_BATCHES_PER_RUN(impl[r])
  THEN /\ batch' = [batch EXCEPT ![r] = @ + 1]
       /\ pc' = [pc EXCEPT ![r] = "fetch"]
       /\ UNCHANGED <<idx, response>>
  ELSE /\ pc' = [pc EXCEPT ![r] = "done"]
       /\ response' = [response EXCEPT ![r] = "ok"]
       /\ batch' = [batch EXCEPT ![r] = @ + 1]
       /\ idx' = idx

\* The status update of the current row reaches the table, the result entry
\* is pushed and the loop moves on.
WriteStatus(r) ==
  /\ pc[r] = "write"
  /\ LET id == CurrentTweet(r).id
     IN /\ tweets' = [tweets EXCEPT ![id] = ApplyUpdate(@, update[r], clock)]
        /\ results' = [results EXCEPT ![r] =
              Append(@, [id |-> id, status |-> update[r].result,
                         error |-> update[r].result_error])]
  /\ LoopAdvance(r)
  /\ RowLocalsReset(r)
  /\ IF pc'[r] = "done"
     THEN RowObserversReset(r) /\ resolveErr' = [resolveErr EXCEPT ![r] = NullMsg]
     ELSE UNCHANGED <<pubCalls, forceCalls, firstResp, lastResp, resolveErr>>
  /\ resolveLog' = [resolveLog EXCEPT ![r] = NoResolve]
  /\ UNCHANGED <<clock, accounts, request, env, edit, impl, now, dueTweets, queries, dueAtStart>>

\* The status update of the current row does not take effect (the update
\* resolves with an error, which no handler looks at): the table is as it
\* was, the result entry is pushed all the same and the loop moves on.
WriteStatusLost(r) ==
  /\ pc[r] = "write"
  /\ Len(results[r]) < MaxLostWrites
  /\ results' = [results EXCEPT ![r] =
        Append(@, [id |-> CurrentTweet(r).id, status |-> update[r].result,
                   error |-> update[r].result_error])]
  /\ LoopAdvance(r)
  /\ RowLocalsReset(r)
  /\ IF pc'[r] = "done"
     THEN RowObserversReset(r) /\ resolveErr' = [resolveErr EXCEPT ![r] = NullMsg]
     ELSE UNCHANGED <<pubCalls, forceCalls, firstResp, lastResp, resolveErr>>
  /\ resolveLog' = [resolveLog EXCEPT ![r] = NoResolve]
  /\ UNCHANGED <<storeVars, request, env, edit, impl, now, dueTweets, queries, dueAtStart>>

\* The body of the response of a run that completed: index.ts 420-424,
\* route.ts 127-130.
ResponseBody(r) == [processed |-> Len(results[r]), results |-> results[r]]

\* ------------------------------------------------------- the environment
Tick ==
  /\ clock < MaxClock
  /\ clock' = clock + 1
  /\ UNCHANGED <<tweets, accounts, env, edit, runVars, obsVars>>

\* supabase/reset_failed_tweets.sql, run by hand.
ResetFailed ==
  /\ \E id \in DOMAIN tweets : tweets[id].status = "failed"
  /\ tweets' = [id \in DOMAIN tweets |->
       IF tweets[id].status = "failed"
       THEN [tweets[id] EXCEPT !.status = "pending", !.error_message = NullMsg,
                               !.posted_at = NullTime]
       ELSE tweets[id]]
  /\ UNCHANGED <<clock, accounts, env, edit, runVars, obsVars>>

\* POST /api/scheduled-tweets: a row with status pending and a scheduled_at
\* in the future ([id]/route.ts 37-52).
CreateTweet(id, tx, at) ==
  /\ edit.op = "none" /\ edit.n < MaxEdits
  /\ tweets[id].status = "absent"
  /\ at > clock
  /\ tweets' = [tweets EXCEPT ![id] =
                  [Tweet(UserOf(id), at, "pending", NullTime, NullMsg)
                     EXCEPT !.text = tx]]
  /\ edit' = [edit EXCEPT !.n = @ + 1]
  /\ UNCHANGED <<clock, accounts, env, runVars, obsVars>>

\* PATCH, up to the select: the body passed the checks, the row is there
\* and pending ([id]/route.ts 72-94).  A refused call leaves no trace.
PatchSelect(id, tx, at) ==
  /\ edit.op = "none" /\ edit.n < MaxEdits
  /\ at > clock
  /\ Exists(tweets[id])
  /\ tweets[id].status = "pending"
  /\ edit' = Edit("patch", id, tx, at, edit.n + 1)
  /\ UNCHANGED <<storeVars, env, runVars, obsVars>>

\* PATCH, the update: WHERE id = ? AND user_id = ? ([id]/route.ts 96-110).
PatchUpdate ==
  /\ edit.op = "patch"
  /\ tweets' = [tweets EXCEPT ![edit.id] =
                  IF Exists(@)
                  THEN [@ EXCEPT !.text = edit.text,
                                 !.scheduled_at = edit.scheduled_at]
                  ELSE @]
  /\ edit' = [NoEdit EXCEPT !.n = edit.n]
  /\ UNCHANGED <<clock, accounts, env, runVars, obsVars>>

\* DELETE, up to the select: the row is there ([id]/route.ts 123-130).
DeleteSelect(id) ==
  /\ edit.op = "none" /\ edit.n < MaxEdits
  /\ Exists(tweets[id])
  /\ edit' = Edit("delete", id, "", NullTime, edit.n + 1)
  /\ UNCHANGED <<storeVars, env, runVars, obsVars>>

\* DELETE, the delete ([id]/route.ts 132-143).
DeleteRow ==
  /\ edit.op = "delete"
  /\ tweets' = [tweets EXCEPT ![edit.id] =
                  IF Exists(@) THEN [@ EXCEPT !.status = "deleted"] ELSE @]
  /\ edit' = [NoEdit EXCEPT !.n = edit.n]
  /\ UNCHANGED <<clock, accounts, env, runVars, obsVars>>

\* One step of an owner's request.
EditStep ==
  \/ \E id \in Rows, tx \in Texts, at \in 1..(MaxClock + 1) :
       CreateTweet(id, tx, at) \/ PatchSelect(id, tx, at)
  \/ PatchUpdate
  \/ \E id \in Rows : DeleteSelect(id)
  \/ DeleteRow

\* A row is added to the table: status pending, any scheduled_at the
\* client sends (the composer's check of the time is client-side only).
InsertTweet(id, at) ==
  /\ tweets[id].status = "absent"
  /\ tweets' = [tweets EXCEPT ![id] = Tweet(UserOf(id), at, "pending", NullTime, NullMsg)]
  /\ UNCHANGED <<clock, accounts, env, edit, runVars, obsVars>>

\* A shipped trigger fires.  The two routes answer 500 without calling the
\* edge function when CRON_SECRET is not set (tick/route.ts 29-35,
\* part_003 20-26); the pg_cron job reads no such setting.
Fire(r, path) ==
  /\ path # "pg_cron" => ~IsMissing(env.CRON_SECRET)
  /\ Trigger(r, "edge", ShippedRequest(path, env))

\* The steps of a run that has started.
Serve(r) ==
  \/ FetchBatch(r)
  \/ FetchFail(r)
  \/ LoadAccount(r)
  \/ RefreshCall(r)
  \/ PersistOk(r)
  \/ PersistFail(r)
  \/ Publish(r)
  \/ WriteStatus(r)

\* A run from the scheduler's request to the response.
RunStep(r) ==
  \/ \E i \in Impls : Trigger(r, i, CronRequest(i))
  \/ Serve(r)

\* One dispatch run over the queue.
Next ==
  \/ RunStep(1)
  \/ Tick

Spec == Init /\ [][Next]_vars

\* Two dispatch runs, overlapping or one after the other.
NextOverlap ==
  \/ \E r \in Runs : RunStep(r)
  \/ Tick

SpecOverlap == InitOverlap /\ [][NextOverlap]_vars

\* Two dispatch runs that do not overlap, and the reset script at any time.
\* Every row is due from the start, so the clock is left standing.
NextSerial ==
  \/ \E r \in Runs : (\A q \in Runs \ {r} : ~Active(q)) /\ RunStep(r)
  \/ ResetFailed

SpecSerial == InitOverlap /\ [][NextSerial]_vars

\* One dispatch run over a single pending row, whose owner's credential
\* record has any of the shapes the resolver distinguishes: no record, no
\* token, a blank token, with and without refresh token, expires_at absent,
\* past once the clock has moved, inside the skew window, on its edge at
\* the last minute, and beyond it.
ResolveAccounts ==
  {NoAccount} \cup
  { Account(TRUE, a, rt, e) :
      a \in {"", " ", "tA"}, rt \in {NullStr, "rA"},
      e \in {NullTime, NotADate, 0, MaxClock + 2,
              MaxClock + EXPIRY_SKEW_MIN, MaxClock + EXPIRY_SKEW_MIN + 1} }
InitResolve ==
  /\ clock = 0
  /\ tweets = [id \in Rows |->
                 IF id = 1
                 THEN Tweet(UserOf(id), 0, "pending", NullTime, NullMsg)
                 ELSE Tweet(UserOf(id), 0, "posted", 0, NullMsg)]
  /\ \E a1 \in ResolveAccounts :
       accounts = [u \in Users |-> IF u = "u1" THEN a1 ELSE NoAccount]
  /\ \E id \in BOOLEAN : env = Environment("s1", NullStr, id)
  /\ InitRuns

SpecResolve == InitResolve /\ [][Next]_vars

\* One dispatch run while the owner creates, edits and deletes rows.  Row 1
\* is pending and due; the last row is pending or not yet created.
InitEdit ==
  /\ clock = 0
  /\ \E st \in {"pending", "absent"} :
       tweets = [id \in Rows |->
                   Tweet(UserOf(id), InitScheduledAt(id),
                         IF id = NumRows THEN st ELSE "pending", NullTime, NullMsg)]
  /\ accounts = [u \in Users |-> Account(TRUE, "tA", "rA", 200)]
  /\ env = Configured
  /\ InitRuns

NextEdit ==
  \/ RunStep(1)
  \/ EditStep
  \/ Tick

SpecEdit == InitEdit /\ [][NextEdit]_vars

\* One call of a trigger with any request, under any configuration of the
\* secrets, over a queue of one pending row.
InitTrigger ==
  /\ clock = 0
  /\ tweets = [id \in Rows |->
                 IF id = 1
                 THEN Tweet(UserOf(id), 0, "pending", NullTime, NullMsg)
                 ELSE Tweet(UserOf(id), 0, "posted", 0, NullMsg)]
  /\ accounts = [u \in Users |->
                   IF u = "u1" THEN Account(TRUE, "tA", "rA", 200) ELSE NoAccount]
  /\ \E s \in {NullStr, "", "s1"}, p \in {NullStr, "s2"} :
       env = Environment(s, p, TRUE)
  /\ InitRuns

NextTrigger ==
  \/ \E i \in Impls, req \in Requests : Trigger(1, i, req)
  \/ \E path \in TriggerPaths : Fire(1, path)
  \/ Serve(1)

SpecTrigger == InitTrigger /\ [][NextTrigger]_vars

\* One dispatch run whose status writes may be lost, over a queue that grows
\* while it runs.  Row 1 is pending; the last row is pending or not yet
\* there.  The clock stands at its last minute, so that every row is due,
\* the older and the newer ones.
InitBacklog ==
  /\ clock = MaxClock
  /\ \E st \in {"pending", "absent"} :
       tweets = [id \in Rows |->
                   Tweet(UserOf(id), InitScheduledAt(id),
                         IF id = NumRows THEN st ELSE "pending", NullTime, NullMsg)]
  /\ accounts = [u \in Users |->
                   IF u = "u2" THEN Account(TRUE, "tA", "rA", 200) ELSE NoAccount]
  /\ env = Configured
  /\ InitRuns

RunStepBacklog == RunStep(1) \/ WriteStatusLost(1)

NextBacklog ==
  \/ RunStepBacklog
  \/ \E id \in Rows, at \in 0..MaxClock : InsertTweet(id, at)

\* Every await of the handler settles: a request that arrived is served, and
\* a run that can take a step takes one.
SpecBacklog == InitBacklog /\ [][NextBacklog]_vars /\ WF_vars(RunStepBacklog)

\* The scheduler fires again after a run has returned (part_001: the
\* every-minute job); the handler keeps nothing from the previous request.
NextFiring(r) ==
  /\ pc[r] = "done"
  /\ pc' = [pc EXCEPT ![r] = "idle"]
  /\ request' = [request EXCEPT ![r] = NoRequest]
  /\ impl' = [impl EXCEPT ![r] = "edge"]
  /\ now' = [now EXCEPT ![r] = 0]
  /\ batch' = [batch EXCEPT ![r] = 0]
  /\ dueTweets' = [dueTweets EXCEPT ![r] = <<>>]
  /\ idx' = [idx EXCEPT ![r] = 0]
  /\ results' = [results EXCEPT ![r] = <<>>]
  /\ response' = [response EXCEPT ![r] = "none"]
  /\ queries' = [queries EXCEPT ![r] = 0]
  /\ dueAtStart' = [dueAtStart EXCEPT ![r] = {}]
  /\ RowLocalsReset(r)
  /\ RowObserversReset(r)
  /\ UNCHANGED <<storeVars, env, edit, resolveErr, resolveLog>>

\* Runs one after the other, for ever, over a queue of NumQueued rows: more
\* than the edge function takes in one run.  The last row is due from the
\* start or becomes due a minute later.
InitRepeat ==
  /\ clock = 0
  /\ \E at \in 0..MaxClock :
       tweets = [id \in 1..NumQueued |->
                   Tweet(UserOf(id), IF id = NumQueued THEN at ELSE 0,
                         "pending", NullTime, NullMsg)]
  /\ accounts = [u \in Users |->
                   IF u = "u2" THEN Account(TRUE, "tA", "rA", 200) ELSE NoAccount]
  /\ env = Configured
  /\ InitRuns

NextRepeat ==
  \/ RunStep(1)
  \/ NextFiring(1)
  \/ Tick

\* The scheduler keeps firing, every await of the handler settles, and the
\* due-rows query does not fail for ever.
SpecRepeat ==
  /\ InitRepeat /\ [][NextRepeat]_vars
  /\ WF_vars(RunStep(1)) /\ WF_vars(NextFiring(1))
  /\ SF_vars(FetchBatch(1))

\* ================================================================ claims
\* The step in which run r sends the status update of its current row.
Writes(r) == pc[r] = "write" /\ pc'[r] # "write"
RowOf(r) == CurrentTweet(r).id
\* Run r has sent a status update and has not yet started on another row;
\* LastWritten is the row the update was for.
Wrote(r) ==
  /\ pc[r] \in {"load", "fetch"} /\ ~force[r]
  /\ Len(results[r]) > 0
LastWritten(r) == results[r][Len(results[r])].id
\* A message cut to at most n characters.
Bounded(m, n) == IF m.len > n THEN [m EXCEPT !.len = n] ELSE m

\* C1: a row whose first publish call is answered 401 and whose retry is
\* answered 2xx has had exactly one force-refresh resolve and exactly two
\* publish calls when its status is written, and the status written is posted.
C1_RetryAfter401 ==
  [][\A r \in Runs :
       (Writes(r) /\ pubCalls[r] >= 1 /\ firstResp[r].status = 401 /\ HttpOk(lastResp[r]))
         => /\ forceCalls[r] = 1
            /\ pubCalls[r] = 2
            /\ tweets'[RowOf(r)].status = "posted"]_vars
C1_Witness ==
  \E r \in Runs :
    /\ Wrote(r) /\ firstResp[r].status = 401 /\ HttpOk(lastResp[r])
    /\ pubCalls[r] = 2 /\ forceCalls[r] = 1
    /\ tweets[LastWritten(r)].status = "posted"

\* What the publish endpoint's answer resp amounts to as an error text:
\* the error of the publish result, or the exception of a rejected fetch.
UpstreamError(i, resp) ==
  IF resp = NetworkFailure THEN FetchFailedMsg ELSE postTweet(i, resp).error

\* C2: a row whose first publish call fails with anything but 401 (403, 429,
\* 5xx, no response) gets exactly one publish call and no force refresh, and
\* is written failed with the upstream error, cut to 500 characters.
C2_NoRetryOnOtherErrors ==
  [][\A r \in Runs :
       (Writes(r) /\ pubCalls[r] >= 1 /\ ~HttpOk(firstResp[r]) /\ firstResp[r].status # 401)
         => /\ pubCalls[r] = 1
            /\ forceCalls[r] = 0
            /\ tweets'[RowOf(r)].status = "failed"
            /\ tweets'[RowOf(r)].error_message
                 = Bounded(UpstreamError(impl[r], firstResp[r]), 500)]_vars
C2_Witness ==
  \E r \in Runs :
    /\ Wrote(r) /\ pubCalls[r] = 1 /\ firstResp[r].status = 500
    /\ tweets[LastWritten(r)].status = "failed"
    /\ tweets[LastWritten(r)].error_message.len = 500

\* C3: a row whose publish call (first or retry) is answered 2xx is written
\* posted, with posted_at set and error_message null.
C3_PostedFields ==
  [][\A r \in Runs :
       (Writes(r) /\ pubCalls[r] >= 1 /\ HttpOk(lastResp[r]))
         => /\ tweets'[RowOf(r)].status = "posted"
            /\ tweets'[RowOf(r)].posted_at # NullTime
            /\ tweets'[RowOf(r)].error_message = NullMsg]_vars
C3_Witness ==
  \E r \in Runs :
    /\ Wrote(r) /\ pubCalls[r] = 1 /\ HttpOk(lastResp[r])
    /\ tweets[LastWritten(r)].status = "posted"
    /\ tweets[LastWritten(r)].posted_at = clock
    /\ tweets[LastWritten(r)].error_message = NullMsg

\* C4: when the initial resolve of a row fails, no publish call is made for
\* the row, the row is written failed with the resolution error (cut to 500
\* characters), and the run goes on: to the next row of the batch if there
\* is one, and never to a run-level error.
C4_ResolveFailure ==
  [][\A r \in Runs :
       (Writes(r) /\ resolveErr[r] # NullMsg)
         => /\ pubCalls[r] = 0
            /\ tweets'[RowOf(r)].status = "failed"
            /\ tweets'[RowOf(r)].error_message = Bounded(resolveErr[r], 500)
            /\ response'[r] # "fetch_error"
            /\ idx[r] < Len(dueTweets[r])
                 => (pc'[r] = "load" /\ idx'[r] = idx[r] + 1)]_vars
C4_Witness ==
  \E r \in Runs :
    /\ Wrote(r) /\ resolveErr[r] = RefreshRejectedMsg /\ pubCalls[r] = 0
    /\ pc[r] = "load" /\ idx[r] = 2
    /\ tweets[LastWritten(r)].status = "failed"
    /\ tweets[LastWritten(r)].error_message = RefreshRejectedMsg

\* C5: posted is terminal: no step takes a row from posted to another status.
\* (The runs are the only writers in SpecOverlap.)
C5_PostedTerminal ==
  [][\A id \in Rows :
       tweets[id].status = "posted" => tweets'[id].status = "posted"]_vars

\* C6: nothing marks a row as taken between the due-rows query and the
\* status write: a row changes only in the step in which a run writes the
\* outcome of its attempt on that row, so a second run that queries in the
\* meantime gets the same row and publishes it again.
C6_NoClaimStep ==
  [][\A id \in Rows :
       tweets'[id] # tweets[id]
         => \E r \in Runs : Writes(r) /\ RowOf(r) = id]_vars
\* Both runs hold the same row and both have had a publish call accepted.
C6_Witness ==
  /\ pc[1] = "write" /\ pc[2] = "write"
  /\ RowOf(1) = RowOf(2)
  /\ pubCalls[1] >= 1 /\ pubCalls[2] >= 1
  /\ HttpOk(lastResp[1]) /\ HttpOk(lastResp[2])

\* C7: posted_at is non-null only on a posted row, and error_message is
\* non-null only on a failed row.
C7_FieldsMatchStatus ==
  \A id \in Rows :
    /\ tweets[id].posted_at # NullTime => tweets[id].status = "posted"
    /\ tweets[id].error_message # NullMsg => tweets[id].status = "failed"

\* Run r is working on a row: resolving its token, publishing it, or about
\* to write its status.
Attempting(r) == pc[r] \in {"load", "refresh", "persist", "publish", "write"}
\* The step is one of the reset script, not of a run.
ExternalStep == UNCHANGED <<runVars, obsVars>>

\* C8: every row a due-rows query returns is pending when the query runs, so
\* a run works only on rows that were pending when their batch was fetched;
\* and a failed row stays failed until the reset script, not a run, makes it
\* pending again.
C8_FailedNotDue ==
  [][/\ \A r \in Runs :
          queries'[r] # queries[r]
            => \A k \in 1..Len(dueTweets'[r]) :
                 /\ tweets[dueTweets'[r][k].id].status = "pending"
                 /\ dueTweets'[r][k].status = "pending"
     /\ \A r \in Runs : Attempting(r) => CurrentTweet(r).status = "pending"
     /\ \A id \in Rows :
          (tweets[id].status = "failed" /\ tweets'[id] # tweets[id])
            => (ExternalStep /\ tweets'[id].status = "pending")]_vars
\* Run 1 marked row 1 failed; run 2 came later, queried once, found nothing
\* to do and finished, the row still failed.
C8_Witness ==
  /\ pc[1] = "done" /\ Len(results[1]) = 1 /\ results[1][1].id = 1
  /\ results[1][1].status # "posted"
  /\ tweets[1].status = "failed"
  /\ pc[2] = "done" /\ response[2] = "ok" /\ queries[2] = 1
  /\ results[2] = <<>>

\* The step in which run r finishes the last row of a batch.
EndsBatch(r) == Writes(r) /\ idx[r] = Len(dueTweets[r])

\* C9: after a batch of exactly batch_size rows, the cap not reached, the run
\* goes back to the due-rows query; after a batch of fewer rows (or none) it
\* returns; and a run that has returned issues no further query.
C9_Pagination ==
  [][\A r \in Runs :
       /\ (EndsBatch(r) /\ Len(dueTweets[r]) = BATCH_SIZE(impl[r])
             /\ queries[r] < MAX_BATCHES_PER_RUN(impl[r]))
            => pc'[r] = "fetch"
       /\ (EndsBatch(r) /\ Len(dueTweets[r]) < BATCH_SIZE(impl[r]))
            => (pc'[r] = "done" /\ response'[r] = "ok")
       /\ (queries'[r] # queries[r] /\ response'[r] # "fetch_error"
             /\ Len(dueTweets'[r]) = 0)
            => (pc'[r] = "done" /\ response'[r] = "ok")
       /\ queries'[r] # queries[r]
            => (pc[r] = "fetch" /\ queries'[r] = queries[r] + 1)
       /\ pc[r] = "done" => (pc'[r] = "done" /\ queries'[r] = queries[r])]_vars
\* A run whose first batch came back short: it attempted the row and
\* returned having issued that one query.
C9_Witness ==
  \E r \in Runs :
    /\ pc[r] = "done" /\ response[r] = "ok" /\ impl[r] = "route"
    /\ queries[r] = 1 /\ Len(dueTweets[r]) = 1 /\ Len(results[r]) = 1

\* The rows run r has attempted.
Attempted(r) == { results[r][k].id : k \in 1..Len(results[r]) }
\* The run is over and no due-rows query failed.
Completed(r) == pc[r] = "done" /\ response[r] = "ok"
Capacity(i) == BATCH_SIZE(i) * MAX_BATCHES_PER_RUN(i)

\* C10 as stated: with N <= batch_size * max_batches rows due at the start,
\* all N are attempted and the run issues floor(N / batch_size) + 1 queries
\* (the full batches and one final empty or partial batch).
C10_AsStated ==
  \A r \in Runs :
    (Completed(r) /\ Cardinality(dueAtStart[r]) <= Capacity(impl[r]))
      => /\ Attempted(r) = dueAtStart[r]
         /\ Len(results[r]) = Cardinality(dueAtStart[r])
         /\ queries[r] = (Cardinality(dueAtStart[r]) \div BATCH_SIZE(impl[r])) + 1

\* C10 amended: all N rows are attempted, once each; below the capacity the
\* run issues floor(N / batch_size) + 1 queries, at the capacity it issues
\* max_batches queries, all of them full, and no final one.
C10_Batches ==
  \A r \in Runs :
    (Completed(r) /\ Cardinality(dueAtStart[r]) <= Capacity(impl[r]))
      => /\ Attempted(r) = dueAtStart[r]
         /\ Len(results[r]) = Cardinality(dueAtStart[r])
         /\ queries[r] =
              IF Cardinality(dueAtStart[r]) < Capacity(impl[r])
              THEN (Cardinality(dueAtStart[r]) \div BATCH_SIZE(impl[r])) + 1
              ELSE MAX_BATCHES_PER_RUN(impl[r])
\* Full batches followed by an empty final one.
C10_BelowCapacity ==
  \E r \in Runs :
    /\ Completed(r) /\ impl[r] = "route"
    /\ Cardinality(dueAtStart[r]) = RouteBatchSize
    /\ queries[r] = 2 /\ Len(dueTweets[r]) = 0
    /\ Attempted(r) = dueAtStart[r]
\* The capacity case: as many rows as the run can take, no final query.
C10_Witness ==
  \E r \in Runs :
    /\ Completed(r) /\ impl[r] = "edge"
    /\ Cardinality(dueAtStart[r]) = Capacity("edge")
    /\ queries[r] = EdgeMaxBatches
    /\ Attempted(r) = dueAtStart[r]

\* How far run r has come: the batch, the row in it, and the await within
\* the row's handling (the forced resolve and the retry come after the first
\* publish call).  A returned run is at the top.
Stage(r) ==
  CASE pc[r] = "fetch" -> 0
    [] pc[r] = "load" -> IF force[r] THEN 5 ELSE 1
    [] pc[r] = "refresh" -> IF force[r] THEN 6 ELSE 2
    [] pc[r] = "persist" -> IF force[r] THEN 7 ELSE 3
    [] pc[r] = "publish" -> IF force[r] THEN 8 ELSE 4
    [] OTHER -> 9
RankTop(r) == MAX_BATCHES_PER_RUN(impl[r]) * (BATCH_SIZE(impl[r]) + 1) * 10
Rank(r) ==
  CASE pc[r] = "idle" -> -1
    [] pc[r] = "done" -> RankTop(r)
    [] pc[r] = "fetch" -> batch[r] * (BATCH_SIZE(impl[r]) + 1) * 10
    [] OTHER -> (batch[r] * (BATCH_SIZE(impl[r]) + 1) + idx[r]) * 10 + Stage(r)

\* C11: a run issues at most max_batches_per_run due-rows queries and
\* attempts at most batch_size * max_batches_per_run rows, whatever the
\* backlog, whatever is added to it meanwhile, and whether or not its status
\* writes take effect; and it returns: until it has, it can always take a
\* step, every step it takes brings it strictly nearer to the end of a
\* bounded course, and so every fair run reaches the response.
C11_RunIsBounded ==
  /\ [](\A r \in Runs :
          /\ queries[r] <= MAX_BATCHES_PER_RUN(impl[r])
          /\ Len(results[r]) <= Capacity(impl[r])
          /\ Rank(r) <= RankTop(r))
  /\ [](pc[1] # "done" => ENABLED RunStepBacklog)
  /\ [][\A r \in Runs :
          /\ Rank(r)' >= Rank(r) \/ (pc[r] = "idle" /\ pc'[r] = "fetch")
          /\ pc'[r] # pc[r] => (Rank(r)' > Rank(r) \/ pc[r] = "idle")
          /\ <<batch[r], idx[r], force[r], results[r], queries[r]>>'
               # <<batch[r], idx[r], force[r], results[r], queries[r]>>
               => pc'[r] # pc[r]]_vars
  /\ <>(pc[1] = "done")
\* The run returned at the cap, having used all its attempts, and left a row
\* pending and due behind.
C11_Witness ==
  /\ pc[1] = "done" /\ response[1] = "ok"
  /\ queries[1] = MAX_BATCHES_PER_RUN(impl[1])
  /\ Len(results[1]) = Capacity(impl[1])
  /\ \E id \in Rows : IsDue(tweets[id], now[1])

\* scheduled_at of the k-th row run r attempted.
AttemptedAt(r, k) == tweets[results[r][k].id].scheduled_at

FetchFails(r) == response[r] # "fetch_error" /\ response'[r] = "fetch_error"
\* Run r has returned the run-level error of a failed query.
Aborted(r) == pc[r] = "done" /\ response[r] = "fetch_error"

\* C13: a failed due-rows query ends the run with the run-level error, in
\* that step: no row is attempted and no status is written by it, and
\* afterwards the run issues no query, attempts no row and changes no row.
C13_FetchFailureAborts ==
  [][\A r \in Runs :
       /\ FetchFails(r)
            => /\ pc'[r] = "done"
               /\ queries'[r] = queries[r] + 1
               /\ results'[r] = results[r]
               /\ tweets' = tweets
       /\ Aborted(r)
            => /\ Aborted(r)'
               /\ queries'[r] = queries[r]
               /\ results'[r] = results[r]
               /\ tweets' = tweets]_vars
\* The second query of a run failed; the row of the first batch keeps the
\* status the run wrote.
C13_Witness ==
  \E r \in Runs :
    /\ Aborted(r) /\ queries[r] = 2 /\ Len(results[r]) = 1
    /\ results[r][1].status = "posted"
    /\ tweets[results[r][1].id].status = "posted"

\* The rows of the current batch that run r is done with.
RowsDone(r) == IF Attempting(r) THEN idx[r] - 1 ELSE Len(dueTweets[r])

\* C14: each row of a fetched batch gets a result entry of its own, in the
\* order of the batch, whatever became of the rows before it: while the run
\* is in a batch the entries of the rows before the current one are there,
\* and once it has left the batch the entries of all its rows are.
C14_RowsIsolated ==
  \A r \in Runs :
    /\ Len(results[r]) >= RowsDone(r)
    /\ \A j \in 1..RowsDone(r) :
         results[r][Len(results[r]) - RowsDone(r) + j].id = dueTweets[r][j].id
\* A batch of two: the first row failed, the second was posted.
C14_Witness ==
  \E r \in Runs :
    /\ pc[r] \in {"fetch", "done"} /\ response[r] # "fetch_error"
    /\ Len(dueTweets[r]) = 2 /\ Len(results[r]) = 2
    /\ results[r][1].status \in {"failed", "failed_post", "failed_no_account"}
    /\ tweets[results[r][1].id].status = "failed"
    /\ results[r][2].status = "posted"

\* --------------------------------------------------------- token resolver
\* The credential record of the owner of the row the run is handling.
Stored(r) == accounts[CurrentTweet(r).user_id]
\* A record that says the account is connected.
Connected(a) == a.present /\ a.access_token # ""
\* The call of getValidTwitterToken in progress returns / throws at this step.
Returns(r) == resolveLog[r].returned = NullStr /\ resolveLog'[r].returned # NullStr
Throws(r) == resolveLog[r].threw = NullMsg /\ resolveLog'[r].threw # NullMsg
\* The step that reads the record (and decides what to do with it).
Reads(r) == pc[r] = "load" /\ pc'[r] # "load"
Expired(e, t) == e = NullTime \/ e < t
BeyondSkew(e, t) == e # NullTime /\ e - t > EXPIRY_SKEW_MIN

\* C15: a resolve that returns a token for a record whose expires_at is
\* absent or in the past has sent exactly one request to the token endpoint
\* (and none of them returns from the step that read the record).
C15_OneRefreshWhenExpired ==
  [][\A r \in Runs :
       Returns(r) /\ Expired(resolveLog'[r].expires_at, clock)
         => /\ resolveLog'[r].calls = 1
            /\ pc[r] = "persist"]_vars
\* An expired record (absent expiry, no force) refreshed once, token returned.
C15_Witness ==
  /\ pc[1] = "publish" /\ ~force[1]
  /\ resolveLog[1].expires_at = NullTime
  /\ resolveLog[1].calls = 1
  /\ resolveLog[1].returned = accessToken[1]
\* The same for an expires_at in the past.
C15_WitnessPast ==
  /\ pc[1] = "publish" /\ ~force[1]
  /\ resolveLog[1].expires_at # NullTime /\ resolveLog[1].expires_at < clock
  /\ resolveLog[1].calls = 1
  /\ resolveLog[1].returned = accessToken[1]

\* C16: resolve(force_refresh = false) on a connected record whose
\* expires_at is more than the skew window ahead sends nothing to the token
\* endpoint, returns the stored access_token and leaves the record as it
\* was; a second call in the state the first one left takes the same branch
\* and returns the same token.
C16_NoRefreshBeyondSkew ==
  [][\A r \in Runs :
       Reads(r) /\ ~force[r] /\ Connected(Stored(r))
       /\ BeyondSkew(Stored(r).expires_at, clock)
         => /\ resolveLog'[r] =
                 ResolveLog(Stored(r).expires_at, 0, Stored(r).access_token, NullMsg)
            /\ accounts' = accounts
            /\ ~shouldRefresh(FALSE, accounts'[CurrentTweet(r).user_id], clock')
            /\ accounts'[CurrentTweet(r).user_id].access_token
                 = resolveLog'[r].returned]_vars
\* A stored token returned as it is, a minute after the run began.
C16_Witness ==
  /\ pc[1] = "publish" /\ ~force[1] /\ clock > now[1]
  /\ resolveLog[1].calls = 0
  /\ BeyondSkew(resolveLog[1].expires_at, clock)
  /\ resolveLog[1].returned = Stored(1).access_token
  /\ accessToken[1] = Stored(1).access_token

\* C17: when a resolve that refreshed returns, the record holds the new
\* access_token and the new expires_at, and the refresh token of the
\* response, or the previous one if the response had none (or an empty
\* one); the value returned is the new access_token.
C17_RefreshPersisted ==
  [][\A r \in Runs :
       pc[r] = "persist" /\ Returns(r)
         => /\ Stored(r)' =
                 Account(TRUE, refreshed[r].access_token,
                         IF refreshed[r].refresh_token \in {NullStr, ""}
                         THEN Stored(r).refresh_token
                         ELSE refreshed[r].refresh_token,
                         refreshed[r].expires_at)
            /\ resolveLog'[r].returned = refreshed[r].access_token
            /\ refreshed[r].access_token \in AccessTokens]_vars
\* A refresh whose response had no refresh_token: the old one is kept.
C17_Witness ==
  /\ pc[1] = "publish"
  /\ resolveLog[1].calls = 1
  /\ resolveLog[1].returned = "tB"
  /\ Stored(1) = Account(TRUE, "tB", "rA", clock + 120)
\* A refresh whose response carried a new refresh_token.
C17_WitnessRotated ==
  /\ pc[1] = "publish"
  /\ resolveLog[1].calls = 1
  /\ resolveLog[1].returned = "tB"
  /\ Stored(1).access_token = "tB" /\ Stored(1).refresh_token = "rB"

\* C18: when a refresh is required (force_refresh, or the record is near
\* expiry) and the record has no refresh_token, the resolve throws the
\* missing-refresh-token error, sends nothing to the token endpoint and
\* leaves the record as it was.
C18_MissingRefreshToken ==
  [][\A r \in Runs :
       Reads(r) /\ Connected(Stored(r))
       /\ (force[r] \/ ~BeyondSkew(Stored(r).expires_at, clock))
       /\ Stored(r).refresh_token = NullStr
         => /\ resolveLog'[r] =
                 ResolveLog(Stored(r).expires_at, 0, NullStr, MissingRefreshMsg)
            /\ pc'[r] = "write"
            /\ accounts' = accounts]_vars
\* The force refresh after a 401, on a record without refresh token.
C18_Witness ==
  /\ pc[1] = "write" /\ force[1] /\ pubCalls[1] = 1
  /\ resolveLog[1].threw = MissingRefreshMsg
  /\ resolveLog[1].calls = 0
  /\ Connected(Stored(1)) /\ Stored(1).refresh_token = NullStr

\* The write of the record, sent after a refresh, does not take effect.
PersistFails(r) ==
  /\ pc[r] = "persist" /\ pc'[r] # "persist"
  /\ Stored(r)'.access_token # refreshed[r].access_token
\* C19: when the token endpoint has returned a new token and the write of
\* the record fails, the resolve throws; the handler goes straight to the
\* status write of the row, with the token it had: a failed row without any
\* publish call after the initial resolve, the result of the first publish
\* (the 401) and no second call after the force refresh.
C19_UnsavedTokenUnused ==
  [][\A r \in Runs :
       /\ PersistFails(r)
            => /\ resolveLog'[r].returned = NullStr
               /\ resolveLog'[r].threw # NullMsg
               /\ pc'[r] = "write"
               /\ accessToken'[r] = accessToken[r]
               /\ pubCalls'[r] = pubCalls[r]
               /\ pubCalls[r] = (IF force[r] THEN 1 ELSE 0)
               /\ update'[r].status = "failed"
       /\ pc[r] = "write" /\ pc'[r] # "write"
            => /\ pc'[r] # "publish"
               /\ Len(results'[r]) = Len(results[r]) + 1]_vars
\* The initial resolve: the row was written failed, nothing was published.
C19_Witness ==
  /\ Wrote(1)
  /\ resolveErr[1] = PersistFailedMsg
  /\ pubCalls[1] = 0
  /\ tweets[LastWritten(1)].status = "failed"
  /\ Stored(1).access_token # "tB"
\* The force refresh: one publish call, and the row is about to be failed.
C19_WitnessForced ==
  /\ pc[1] = "write" /\ force[1]
  /\ resolveLog[1].threw = PersistFailedMsg
  /\ pubCalls[1] = 1
  /\ update[1].status = "failed"
  /\ Stored(1).access_token # "tB"

\* ------------------------------------------------------------- the trigger
\* A POST the shared secret does not admit: no secret parameter, a secret
\* that is not the configured one, or no CRON_SECRET configured.
NotAdmitted(req, e) ==
  /\ req.method = "POST"
  /\ \/ req.secret = NullStr
     \/ e.CRON_SECRET = NullStr
     \/ req.secret # e.CRON_SECRET
\* C20: the edge function answers such a POST with 401, at once: no
\* due-rows query, no read or write of a credential record, no publish call,
\* no status write, then or later.
C20_EdgeSecretRequired ==
  [][\A r \in Runs :
       impl'[r] = "edge" /\ pc'[r] # "idle" /\ NotAdmitted(request'[r], env')
         => /\ pc'[r] = "done"
            /\ response'[r] = "unauthorized"
            /\ queries'[r] = 0
            /\ results'[r] = <<>>
            /\ UNCHANGED <<tweets, accounts, queries, pubCalls, resolveLog,
                           results, dueTweets>>]_vars
\* A POST with the right-looking secret while CRON_SECRET is unset.
C20_Witness ==
  /\ pc[1] = "done" /\ impl[1] = "edge"
  /\ request[1].method = "POST" /\ request[1].secret = "s1"
  /\ env.CRON_SECRET = NullStr
  /\ response[1] = "unauthorized"
\* A POST with a wrong secret.
C20_WitnessWrongSecret ==
  /\ pc[1] = "done" /\ impl[1] = "edge"
  /\ request[1].method = "POST" /\ request[1].secret = "s2"
  /\ env.CRON_SECRET = "s1"
  /\ response[1] = "unauthorized"

\* The secrets the route accepts, and a request that shows one of them or
\* the scheduler's header.
ValidSecrets(e) == { x \in {e.CRON_SECRET, e.NEXT_PUBLIC_CRON_SECRET} : x \notin {NullStr, ""} }
Presented(req, e) ==
  \/ req.cron
  \/ req.authorization \in ValidSecrets(e)
  \/ req.secret \in ValidSecrets(e)
StartsNoRun(r) ==
  /\ pc'[r] = "done"
  /\ response'[r] \in {"unauthorized", "method_not_allowed"}
  /\ queries'[r] = 0
  /\ results'[r] = <<>>
  /\ UNCHANGED <<tweets, accounts, queries, pubCalls, resolveLog, results,
                 dueTweets>>
\* C21: a request to the route that shows neither a valid secret nor the
\* x-vercel-cron header starts no dispatch run, whatever the environment.
C21_RouteSecretRequired ==
  [][\A r \in Runs :
       impl'[r] = "route" /\ pc'[r] # "idle" /\ ~Presented(request'[r], env')
         => StartsNoRun(r)]_vars
\* What the route does guarantee: the same, once a secret is configured.
C21_WhenConfigured ==
  [][\A r \in Runs :
       impl'[r] = "route" /\ pc'[r] # "idle" /\ ~Presented(request'[r], env')
       /\ ValidSecrets(env') # {}
         => StartsNoRun(r)]_vars
\* A request without any credential, refused by a configured route.
C21_Refused ==
  /\ pc[1] = "done" /\ impl[1] = "route"
  /\ request[1] = Request("GET", NullStr, NullStr, FALSE)
  /\ env.CRON_SECRET = "s1"
  /\ response[1] = "unauthorized"
\* The same request, served by a route without configured secret.
C21_OpenWhenUnset ==
  /\ impl[1] = "route" /\ pc[1] = "publish"
  /\ request[1] = Request("GET", NullStr, NullStr, FALSE)
  /\ ValidSecrets(env) = {}

\* ------------------------------------------------------------ the retry
\* The publish call of the 401 branch returns or throws at this step.
RetryPublish(r) == pc[r] = "publish" /\ pc'[r] # "publish" /\ force[r]
\* C22: a run makes at most two publish calls and at most one force-refresh
\* resolve for a row; when the second publish call fails too, whatever the
\* answer, the next step is the status write, and it marks the row failed.
C22_ExactlyOneRetry ==
  /\ [](\A r \in Runs : pubCalls[r] <= 2 /\ forceCalls[r] <= 1)
  /\ [][\A r \in Runs :
          /\ RetryPublish(r) /\ ~HttpOk(lastResp'[r])
               => /\ pc'[r] = "write"
                  /\ pubCalls'[r] = 2 /\ forceCalls'[r] = 1
                  /\ update'[r].status = "failed"
          /\ Writes(r) /\ update[r].status = "failed"
               => tweets'[RowOf(r)].status = "failed"]_vars
\* A row answered 401 twice, marked failed after two publish calls.
C22_Witness ==
  /\ Wrote(1)
  /\ pubCalls[1] = 2 /\ forceCalls[1] = 1
  /\ firstResp[1].status = 401 /\ lastResp[1].status = 401
  /\ tweets[LastWritten(1)].status = "failed"

\* ---------------------------------------------------------- the publisher
\* A publish call ends at this step (lastResp' is what the endpoint did).
PublishEnds(r) == pc[r] = "publish" /\ pc'[r] # "publish"
\* What the claim promises of a call: a result, ok for a 2xx answer, and
\* otherwise ok = false with the status of the answer, 0 without an answer.
ResultReturned(r) ==
  /\ postResult'[r].ok = HttpOk(lastResp'[r])
  /\ postResult'[r].status = lastResp'[r].status
  /\ ~HttpOk(lastResp'[r]) => postResult'[r].error # NullMsg
\* A call without answer is not retried, and the row is marked failed.
NoAnswerFails(r) ==
  lastResp'[r] = NetworkFailure
    => /\ pc'[r] = "write"
       /\ force'[r] = force[r]
       /\ update'[r].status = "failed"
\* C23: every publish call returns a result, with the HTTP status kept for a
\* non-2xx answer and status 0 when there was no answer; a status-0 result
\* is not retried and the row is marked failed.
C23_PublisherNeverThrows ==
  [][\A r \in Runs : PublishEnds(r) => ResultReturned(r) /\ NoAnswerFails(r)]_vars
\* What holds of both handlers: a result for every answer that arrived, and
\* no retry and a failed row when none did; the route returns a status-0
\* result also then.
C23_AnswersAndRoute ==
  [][\A r \in Runs :
       PublishEnds(r)
         => /\ NoAnswerFails(r)
            /\ (impl[r] = "route" \/ lastResp'[r] # NetworkFailure)
                 => ResultReturned(r)]_vars
\* The edge function's publish call threw: there is no result of that call.
C23_EdgeThrew ==
  /\ impl[1] = "edge" /\ pc[1] = "write" /\ ~force[1]
  /\ pubCalls[1] = 1 /\ lastResp[1] = NetworkFailure
  /\ postResult[1] = NoResult
  /\ update[1].status = "failed"
\* The route's publish call returned the status-0 result.
C23_RouteStatus0 ==
  /\ impl[1] = "route" /\ pc[1] = "write" /\ ~force[1]
  /\ pubCalls[1] = 1 /\ lastResp[1] = NetworkFailure
  /\ postResult[1].status = 0 /\ ~postResult[1].ok
  /\ update[1].status = "failed"

\* ------------------------------------------------------- write ownership
\* A step of the dispatch run, a step of one of the owner's endpoints.
RunActs == runVars' # runVars
EndpointActs == edit' # edit
\* The ids of the rows the run holds from its latest due-rows query.
Fetched(r) == { dueTweets[r][k].id : k \in 1..Len(dueTweets[r]) }
\* C24: a step of a dispatch run changes at most the row it is handling, a
\* row it fetched as due, and of that row only status, posted_at and
\* error_message: text, scheduled_at and user_id stay, no row appears and
\* none vanishes.  A step of a create, edit or delete endpoint leaves
\* posted_at and error_message of every row alone, and status too, but for
\* the pending of a row it creates (and the row it deletes is gone).
C24_WriteOwnership ==
  [][\A id \in Rows :
       /\ RunActs /\ tweets'[id] # tweets[id]
            => /\ Writes(1) /\ id = RowOf(1) /\ id \in Fetched(1)
               /\ Exists(tweets[id]) /\ Exists(tweets'[id])
               /\ tweets'[id].status \in {"posted", "failed"}
               /\ tweets'[id].text = tweets[id].text
               /\ tweets'[id].scheduled_at = tweets[id].scheduled_at
               /\ tweets'[id].user_id = tweets[id].user_id
       /\ EndpointActs /\ Exists(tweets'[id])
            => /\ tweets'[id].posted_at = tweets[id].posted_at
               /\ tweets'[id].error_message = tweets[id].error_message
               /\ \/ tweets'[id].status = tweets[id].status
                  \/ ~Exists(tweets[id]) /\ tweets'[id].status = "pending"]_vars
\* The run wrote the status of a row the owner had edited after the fetch:
\* the new text and time are still there.
C24_Witness ==
  /\ Wrote(1)
  /\ tweets[LastWritten(1)].status = "posted"
  /\ tweets[LastWritten(1)].text = "v1"
  /\ tweets[LastWritten(1)].scheduled_at > clock
\* The run's status write found the row deleted, and the row stays deleted.
C24_WitnessDeleted ==
  /\ Wrote(1)
  /\ tweets[LastWritten(1)].status = "deleted"

\* C25: once the status of a row is posted or failed, no step changes its
\* text or its scheduled_at.
C25_TextImmutable ==
  [][\A id \in Rows :
       tweets[id].status \in {"posted", "failed"} /\ Exists(tweets'[id])
         => /\ tweets'[id].text = tweets[id].text
            /\ tweets'[id].scheduled_at = tweets[id].scheduled_at]_vars
\* What the check of the status does ensure: an edit whose select comes
\* after the status write is refused, so that a row that is posted or
\* failed while no edit is between its select and its update stays as it is
\* until it is deleted.
C25_RefusedOnceSeen ==
  [][\A id \in Rows :
       tweets[id].status \in {"posted", "failed"} /\ Exists(tweets'[id])
       /\ ~(edit.op = "patch" /\ edit.id = id)
         => /\ tweets'[id].text = tweets[id].text
            /\ tweets'[id].scheduled_at = tweets[id].scheduled_at]_vars
\* An edit that passed the check while the row was pending, about to write
\* to the row the run has posted meanwhile.
C25_StaleEdit ==
  /\ edit.op = "patch"
  /\ tweets[edit.id].status = "posted"
  /\ tweets[edit.id].text # edit.text

\* ------------------------------------------------------- the result list
\* An entry as the claim describes it: posted, or failed with the error text.
PlainEntry(e) ==
  \/ e.status = "posted"
  \/ e.status = "failed" /\ e.error # NullMsg
\* One entry per attempted row: the list grows by one entry, for the row in
\* hand, with the status write of a row, and at no other step of the run.
OneEntryPerRow(r) ==
  IF Writes(r)
  THEN /\ Len(results'[r]) = Len(results[r]) + 1
       /\ results'[r][Len(results'[r])].id = RowOf(r)
  ELSE pc[r] # "idle" => results'[r] = results[r]
\* C26: a run returns processed = number of result entries, one entry per
\* attempted row, each with status posted or failed, the failed ones with
\* the error text.
C26_ResultEntries ==
  /\ [](\A r \in Runs :
          Completed(r)
            => /\ ResponseBody(r).processed = Len(ResponseBody(r).results)
               /\ \A k \in 1..Len(results[r]) : PlainEntry(results[r][k]))
  /\ [][\A r \in Runs : OneEntryPerRow(r)]_vars
\* What holds of both handlers: the count, one entry per attempted row, and
\* a status that tells posted from not posted; on the edge function every
\* entry is as the claim says.
C26_EntriesOfEither ==
  /\ [](\A r \in Runs :
          Completed(r)
            => /\ ResponseBody(r).processed = Len(ResponseBody(r).results)
               /\ \A k \in 1..Len(results[r]) :
                    /\ results[r][k].status \in
                         {"posted", "failed", "failed_post", "failed_no_account"}
                    /\ impl[r] = "edge" => PlainEntry(results[r][k]))
  /\ [][\A r \in Runs : OneEntryPerRow(r)]_vars
\* A response of the route with an entry that has neither status.
C26_RouteEntry ==
  /\ Completed(1) /\ impl[1] = "route"
  /\ ResponseBody(1).processed = NumRows
  /\ results[1][1].status = "failed_no_account"
  /\ results[1][1].error = NullMsg

\* -------------------------------------------------------- the error text
\* The message the status write in hand is about, before any truncation:
\* what the resolve threw, or the error of the publish result.
Upstream(r) ==
  IF resolveErr[r] # NullMsg THEN resolveErr[r]
  ELSE IF postResult[r] # NoResult /\ ~postResult[r].ok THEN postResult[r].error
  ELSE FetchFailedMsg
\* C27: every error_message in the table is at most 500 long; a status
\* write stores the first 500 units of a longer message.
C27_ErrorMessageBounded ==
  /\ [](\A id \in Rows : tweets[id].error_message.len <= 500)
  /\ [][\A r \in Runs :
          Writes(r) /\ update[r].status = "failed"
            => /\ tweets'[RowOf(r)].error_message.text = Upstream(r).text
               /\ tweets'[RowOf(r)].error_message.len = Min(Upstream(r).len, 500)]_vars
\* A row of the route failed with a 600-unit exception message, cut to 500.
C27_Witness ==
  /\ Wrote(1) /\ impl[1] = "route"
  /\ resolveErr[1].len = 600
  /\ tweets[LastWritten(1)].status = "failed"
  /\ tweets[LastWritten(1)].error_message.len = 500
\* The same on the edge function, from a 600-unit body of the publish endpoint.
C27_WitnessEdge ==
  /\ Wrote(1) /\ impl[1] = "edge"
  /\ lastResp[1].body.raw.len = 600
  /\ tweets[LastWritten(1)].status = "failed"
  /\ tweets[LastWritten(1)].error_message.len = 500

\* ------------------------------------------- the force-refresh that fails
\* The resolve made after a 401 ends without a token at this step.
ForcedResolveFails(r) ==
  /\ force[r] /\ pc[r] \in {"load", "refresh", "persist"}
  /\ pc'[r] = "write"
\* The error of the first publish result of the row, as it is recorded.
FirstError(r) ==
  Slice500(OrElse(postTweet(impl[r], firstResp[r]).error,
                  Msg("Failed to post tweet", 20)))
\* The row in hand had one publish call, answered 401, and no token since.
FailedAfterForce(r) == pc[r] = "write" /\ force[r] /\ pubCalls[r] = 1
\* C28: when the resolve after a 401 fails, the handler goes to the status
\* write without a second publish call, and the row is marked failed with
\* the error of the 401 result.
C28_NoRetryWithoutToken ==
  [][\A r \in Runs :
       /\ ForcedResolveFails(r)
            => /\ pubCalls'[r] = 1 /\ forceCalls'[r] = 1
               /\ firstResp'[r].status = 401 /\ lastResp'[r] = firstResp'[r]
               /\ update'[r].status = "failed"
               /\ update'[r].error_message = FirstError(r)
       /\ FailedAfterForce(r) /\ Writes(r)
            => /\ tweets'[RowOf(r)].status = "failed"
               /\ tweets'[RowOf(r)].error_message = FirstError(r)
               /\ pubCalls'[r] <= 1]_vars
\* The four ways the resolve fails, each after a first publish answered 401.
C28_Witness ==
  FailedAfterForce(1) /\ resolveLog[1].threw = MissingRefreshMsg
C28_WitnessRejected ==
  FailedAfterForce(1) /\ resolveLog[1].threw \in RefreshErrors
C28_WitnessMalformed ==
  FailedAfterForce(1) /\ resolveLog[1].threw = MalformedMsg
C28_WitnessPersist ==
  FailedAfterForce(1) /\ resolveLog[1].threw = PersistFailedMsg

\* ------------------------------------------------ the token of a publish
\* A resolve made for the row in hand since its previous publish call (or
\* since the row was taken up) returned a token.
Resolved(r) == resolveLog[r].threw = NullMsg /\ resolveLog[r].returned # NullStr
\* C29: a publish call is made with the token returned by a resolve of its
\* own: the first with that of the plain resolve of the row, the retry with
\* that of the force-refresh, which asked the token endpoint.
C29_OwnResolve ==
  \A r \in Runs :
    pc[r] = "publish"
      => /\ Resolved(r)
         /\ accessToken[r] = resolveLog[r].returned
         /\ pubCalls[r] = (IF force[r] THEN 1 ELSE 0)
         /\ force[r] => resolveLog[r].calls = 1
\* The retry publish of a row is about to go out with the refreshed token,
\* which is not the one the first attempt used.
C29_Witness ==
  /\ pc[1] = "publish" /\ force[1] /\ pubCalls[1] = 1
  /\ accessToken[1] = "tB"
  /\ firstResp[1].status = 401
\* The second row of a run is about to be published for another owner, with
\* a token resolved after the first row was written.
C29_WitnessNextRow ==
  /\ pc[1] = "publish" /\ Len(results[1]) = 1 /\ pubCalls[1] = 0
  /\ CurrentTweet(1).user_id # tweets[LastWritten(1)].user_id
  /\ Resolved(1) /\ accessToken[1] = resolveLog[1].returned

\* ------------------------------------------------------ the expiry window
\* The claim's reading of "near expiry" at time t.
NearExpiry(e, t) == e = NullTime \/ e = NotADate \/ t >= e - EXPIRY_SKEW_MIN
\* The resolve returns the stored token from the step that read the record.
ReturnsStored(r) ==
  resolveLog'[r] = ResolveLog(Stored(r).expires_at, 0, Stored(r).access_token, NullMsg)
\* C30: a resolve without force_refresh on a connected record returns the
\* stored token without a refresh exactly when expires_at is a date more
\* than five minutes ahead; otherwise (absent, not a date, or at most five
\* minutes ahead) it goes for a refresh, which needs the refresh token.
C30_NearExpiryBoundary ==
  [][\A r \in Runs :
       Reads(r) /\ ~force[r] /\ Connected(Stored(r))
         => /\ ReturnsStored(r) <=> ~NearExpiry(Stored(r).expires_at, clock)
            /\ NearExpiry(Stored(r).expires_at, clock)
                 => IF HasRefreshToken(Stored(r))
                    THEN pc'[r] = "refresh"
                    ELSE resolveLog'[r].threw = MissingRefreshMsg]_vars
\* On the boundary: a token that expires in exactly five minutes is refreshed.
C30_Witness ==
  /\ pc[1] = "refresh" /\ ~force[1]
  /\ resolveLog[1].expires_at - clock = EXPIRY_SKEW_MIN
\* Inside the window, still in the future.
C30_WitnessInside ==
  /\ pc[1] = "refresh" /\ ~force[1]
  /\ resolveLog[1].expires_at > clock
  /\ resolveLog[1].expires_at - clock < EXPIRY_SKEW_MIN
\* One minute beyond the boundary: the stored token is used as it is.
C30_WitnessBeyond ==
  /\ pc[1] = "publish" /\ ~force[1] /\ resolveLog[1].calls = 0
  /\ resolveLog[1].expires_at - clock = EXPIRY_SKEW_MIN + 1
\* An expires_at that is not a date is refreshed.
C30_WitnessNotADate ==
  /\ pc[1] = "refresh" /\ ~force[1]
  /\ resolveLog[1].expires_at = NotADate

\* ------------------------------------------------- once per run and row
\* The ids of the rows the run has handled so far.
Handled(r) == { results[r][i].id : i \in 1..Len(results[r]) }
NoRowTwice(r) ==
  \A i, j \in 1..Len(results[r]) : i # j => results[r][i].id # results[r][j].id
\* A publish call goes out at this step.
Publishes(r) == pc[r] = "publish" /\ pubCalls'[r] = pubCalls[r] + 1
\* C31: no row id appears twice in the results of a run, and no publish call
\* is made for a row the run has handled already, whether or not the status
\* writes of the run take effect.
C31_OncePerRun ==
  /\ [](\A r \in Runs : NoRowTwice(r))
  /\ [][\A r \in Runs : Publishes(r) => RowOf(r) \notin Handled(r)]_vars
\* The part about the results alone.
C31_NoRowTwice == \A r \in Runs : NoRowTwice(r)
\* A row published, its write lost, about to be published again in the next
\* batch of the same run.
C31_PublishedAgain ==
  /\ pc[1] = "publish" /\ batch[1] > 0
  /\ RowOf(1) \in Handled(1)
  /\ \E i \in 1..Len(results[1]) :
       results[1][i].id = RowOf(1) /\ results[1][i].status = "posted"
  /\ tweets[RowOf(1)].status = "pending"

\* ------------------------------------------------ results and the table
\* The run pushes a result entry at this step (the row in hand is done with).
Pushes(r) == Len(results'[r]) = Len(results[r]) + 1
\* The stored status a result entry stands for.
StatusOf(e) == IF e.status = "posted" THEN "posted" ELSE "failed"
\* C32: right after a row was handled, its stored status is the one its
\* result entry reports, also when the status update returned an error.
C32_ResultsAgreeWithStore ==
  [][\A r \in Runs :
       Pushes(r)
         => LET e == results'[r][Len(results'[r])]
            IN tweets'[e.id].status = StatusOf(e)]_vars
\* The response says posted, the row is still pending.
C32_PostedButPending ==
  /\ Len(results[1]) > 0
  /\ results[1][Len(results[1])].status = "posted"
  /\ tweets[LastWritten(1)].status = "pending"
  /\ pc[1] = "done"

\* ------------------------------------------------------ dedupe by status
\* The rows a run reported posted: those whose publish call succeeded.
PostedIn(r) ==
  { results[r][i].id : i \in { j \in 1..Len(results[r]) : results[r][j].status = "posted" } }
\* C33: with runs one after the other and status writes that take effect,
\* no row is posted by two runs, and a run neither attempts nor publishes a
\* row that another run has posted.
C33_DedupeByStatus ==
  /\ [](\A r, q \in Runs : r # q => PostedIn(r) \cap PostedIn(q) = {})
  /\ [](\A r, q \in Runs :
          r # q /\ Attempting(r) => RowOf(r) \notin PostedIn(q))
  /\ [][\A r \in Runs :
          Publishes(r) => tweets[RowOf(r)].status = "pending"]_vars
\* The first run posted row 1; the second one ran after it, queried, found
\* nothing due and returned.
C33_Witness ==
  /\ Completed(1) /\ 1 \in PostedIn(1)
  /\ Completed(2) /\ queries[2] >= 1 /\ results[2] = <<>>
  /\ tweets[1].status = "posted"

\* ------------------------------------------- publish against the live row
\* C34: when a publish call goes out, the row it is for exists, is pending
\* and is due at that moment.
C34_PublishedRowIsDue ==
  [][\A r \in Runs :
       Publishes(r)
         => /\ Exists(tweets[RowOf(r)])
            /\ tweets[RowOf(r)].status = "pending"
            /\ tweets[RowOf(r)].scheduled_at <= clock]_vars
\* A publish call is about to go out for a row that was deleted after its
\* batch was fetched.
C34_DeletedRowPublished ==
  pc[1] = "publish" /\ tweets[RowOf(1)].status = "deleted"
\* The same for a row moved into the future after its batch was fetched.
C34_RescheduledRowPublished ==
  /\ pc[1] = "publish" /\ tweets[RowOf(1)].status = "pending"
  /\ tweets[RowOf(1)].scheduled_at > clock

\* ------------------------------------------------------------- liveness
Terminal(row) == row.status \in {"posted", "failed"}
\* C35: under repeated runs every row that is pending and due eventually
\* is posted or failed.
C35_DueEventuallyTerminal ==
  \A id \in 1..NumQueued :
    IsDue(tweets[id], clock) ~> Terminal(tweets[id])
\* A run of the edge function returned by its batch cap and left a due row
\* pending: the queue was longer than one run takes.
C35_Witness ==
  /\ Completed(1) /\ impl[1] = "edge"
  /\ Len(results[1]) = Capacity("edge")
  /\ \E id \in 1..NumQueued : IsDue(tweets[id], clock)
\* Every row of the queue reached posted or failed, the last one after it
\* became due while runs were going on.
C35_WitnessAllDone ==
  /\ \A id \in 1..NumQueued : Terminal(tweets[id])
  /\ tweets[NumQueued].scheduled_at = MaxClock

\* --------------------------------------------------- concurrent refreshes
\* What the resolve of run r, holding a refresh response, is about to store:
\* the fields of that response, with the refresh token it read itself when
\* the response has none.
Output(r) ==
  Account(TRUE, refreshed[r].access_token,
          IF refreshed[r].refresh_token \in {NullStr, ""}
          THEN refreshToken[r] ELSE refreshed[r].refresh_token,
          refreshed[r].expires_at)
\* C36: the credential record changes only by the write of a resolve that
\* refreshed, and that write replaces it by the whole output of that
\* resolve; so after two concurrent refreshes it is the output of the one
\* that wrote last.
C36_LastWriterWins ==
  [][/\ \A u \in Users :
          accounts'[u] # accounts[u]
            => \E r \in Runs :
                 /\ pc[r] = "persist" /\ pc'[r] = "publish"
                 /\ CurrentTweet(r).user_id = u
                 /\ accounts'[u] = Output(r)
     /\ \A r \in Runs :
          pc[r] = "persist" /\ pc'[r] = "publish"
            => accounts'[CurrentTweet(r).user_id] = Output(r)]_vars
\* Two resolves for the same owner hold different refresh responses at the
\* same time, both about to write.
C36_Witness ==
  /\ pc[1] = "persist" /\ pc[2] = "persist"
  /\ CurrentTweet(1).user_id = CurrentTweet(2).user_id
  /\ Output(1) # Output(2)
\* The second writer read the refresh token before the first one stored a
\* rotated one, and got a response without refresh token: it is about to
\* put back the token it read.
C36_WitnessStaleRead ==
  /\ pc[2] = "persist" /\ pc[1] = "publish" /\ resolveLog[1].calls = 1
  /\ Stored(2).refresh_token = "rB" /\ refreshToken[2] = "rA"
  /\ refreshed[2].refresh_token = NullStr

\* ------------------------------------------------------ the fixed cutoff
\* The run receives its request at this step.
Starts(r) == pc[r] = "idle" /\ pc'[r] = "fetch"
\* C37: now is the time at which the run began and stays what it is until
\* the run returns; every row a query of the run returns, and so every row
\* the run attempts, has scheduled_at <= that time.
C37_FixedCutoff ==
  /\ [](\A r \in Runs :
          Active(r) => \A k \in 1..Len(dueTweets[r]) :
                         dueTweets[r][k].scheduled_at <= now[r])
  /\ [][\A r \in Runs :
          /\ Starts(r) => now'[r] = clock
          /\ Active(r) => now'[r] = now[r]
          /\ Publishes(r) => tweets[RowOf(r)].scheduled_at <= now[r]]_vars
\* A run that began at minute 0 queried again at minute 1 and returned; the
\* row scheduled for minute 1, due by then, was left alone.
C37_Witness ==
  /\ Completed(1) /\ now[1] = 0 /\ clock = 1 /\ queries[1] >= 2
  /\ \E id \in Rows :
       /\ tweets[id].scheduled_at = 1 /\ tweets[id].status = "pending"
       /\ id \notin Handled(1)

\* ------------------------------------------------------ the shipped triggers
\* The edge function receives the request of the trigger path at this step.
Fired(r, path) ==
  /\ pc[r] = "idle" /\ pc'[r] # "idle" /\ impl'[r] = "edge"
  /\ request'[r] = ShippedRequest(path, env)
\* C38: with CRON_SECRET configured, the request of every shipped trigger
\* passes the secret check of the edge function and starts a run.
C38_TriggersStartRuns ==
  [][\A r \in Runs : \A path \in TriggerPaths :
       Fired(r, path) /\ ~IsMissing(env.CRON_SECRET)
         => pc'[r] = "fetch" /\ response'[r] # "unauthorized"]_vars
\* The same for the two routes alone.
C38_RoutesStartRuns ==
  [][\A r \in Runs : \A path \in {"tick", "trigger"} :
       Fired(r, path) /\ ~IsMissing(env.CRON_SECRET)
         => pc'[r] = "fetch" /\ response'[r] # "unauthorized"]_vars
\* The every-minute job was answered 401 although CRON_SECRET is set.
C38_PgCronRejected ==
  /\ pc[1] = "done" /\ impl[1] = "edge"
  /\ request[1] = ShippedRequest("pg_cron", env)
  /\ env.CRON_SECRET = "s1"
  /\ response[1] = "unauthorized" /\ queries[1] = 0
\* A run started by /api/cron/tick went through to its response.
C38_TickRan ==
  /\ Completed(1) /\ impl[1] = "edge"
  /\ request[1] = ShippedRequest("tick", env)
  /\ Len(results[1]) > 0

====
